---- MODULE Spec2Model ----
(***************************************************************************)
(* Form builder backed by a document store: the Form API controller       *)
(* (routes/forms.js), the Form and Response models, the sync bookkeeping   *)
(* of a Response and the OAuth callback routes (routes/auth.js).           *)
(*                                                                         *)
(* Every request is handled as a chain of asynchronous steps; a step of    *)
(* the model is the code that runs between two awaits.  A document read    *)
(* from the store is a private copy of the request; save() writes back     *)
(* the paths the request changed.                                          *)
(***************************************************************************)
EXTENDS Integers, Sequences, FiniteSets, TLC

VARIABLES
    started,      \* number of Form API requests received
    forms,        \* Form collection: _id -> document
    responses,    \* Response collection: _id -> document
    req,          \* in-flight requests of the Form API: slot -> request
    last,         \* the answer sent last by the Form API
    nextFormId,   \* next fresh Form _id
    nextRespId,   \* next fresh Response _id
    viewsServed,  \* per form: non-owner GETs answered 200 (history)
    worker,       \* sync workers: worker -> position and private copy
    session,      \* the client's session: what the store holds, what is being saved
    cb,           \* in-flight OAuth callback requests: slot -> request
    lastCb,       \* the answer sent last by an OAuth route
    cbStarted,    \* number of callback requests received
    exchanges,    \* token exchanges sent to the provider (history)
    users,        \* User collection: _id -> document
    ureq,         \* in-flight requests of the private auth routes: slot -> request
    lastU,        \* the answer sent last by a private auth route
    uStarted,     \* number of private auth requests received
    now,          \* the time, Date.now()
    issued,       \* token pairs the provider has issued on refresh
    auth,         \* client: the state of the AuthContext reducer
    localToken,   \* client: localStorage 'token'
    calls,        \* client: HTTP calls in flight, in the order they were issued
    issuedCalls,  \* client: calls started by the user or the application
    lastRefresh,  \* client: the outcome of the refresh answered last (history)
    mounted,      \* client: the AuthProvider's mount effects have run
    areq,         \* in-flight requests of the Airtable routes: slot -> request
    lastA,        \* the answer sent last by an Airtable route
    aStarted,     \* number of Airtable requests received
    rsave,        \* a Response on its way from the submitted data to the store
    wizard,       \* FormBuilder: currentStep, formData and whether it has ended
    ctx,          \* FormContext: the state of formReducer
    inflight,     \* FormContext: the requests (and timers) not yet completed
    lastPayload,  \* FormBuilder: the payload handleCreateForm sent last
    lastPublish   \* FormContext: the publishForm call that ended last

vars == <<started, forms, responses, req, last, nextFormId, nextRespId, viewsServed,
          worker,
          session, cb, lastCb, cbStarted, exchanges, users,
          ureq, lastU, uStarted, now, issued,
          auth, localToken, calls, issuedCalls, lastRefresh, mounted,
          areq, lastA, aStarted, rsave, wizard, ctx, inflight, lastPayload,
          lastPublish>>

apiVars == <<started, forms, req, last, nextFormId, nextRespId, viewsServed>>
syncVars == <<worker>>
authVars == <<session, cb, lastCb, cbStarted, exchanges, users>>
oauthVars == <<session, cb, lastCb, cbStarted, exchanges>>
userVars == <<ureq, lastU, uStarted, now, issued>>
clientVars == <<auth, localToken, calls, issuedCalls, lastRefresh, mounted>>
airtableVars == <<areq, lastA, aStarted>>
saveVars == <<rsave>>
contextVars == <<wizard, ctx, inflight, lastPayload, lastPublish>>
restVars == <<saveVars, contextVars>>

----------------------------------------------------------------------------
(* Bounds *)

MaxRequests == 3    \* Form API requests received in a run
MaxForms == 2       \* Form ids ever allocated
MaxCallbacks == 3   \* OAuth callback requests received in a run
MaxUserRequests == 3 \* private auth requests received in a run
MaxTime == 2        \* the clock stops here
MaxClientCalls == 2 \* client calls started by the user or the application
MaxAirtableRequests == 3 \* Airtable requests received in a run
MaxAnswers == 3 \* answers of a submitted Response
MaxClicks == 9 \* actions of the user on the FormBuilder page
MaxInflight == 2 \* requests of the FormContext in flight at a time
MaxChain == 8 \* requests made one on the answer of the other by the client
MaxCalls == 4 \* direct calls of the sync methods on one Response

(* Program constants *)

MaxSyncAttempts == 3

----------------------------------------------------------------------------
(* Values *)

Users == {"u1", "u2"}
Anonymous == "anonymous"
Requesters == Users \cup {Anonymous}

None == <<>>
Some(v) == <<v>>
IsSome(o) == o # <<>>
Get(o) == o[1]

NoOrder == -1

Field(id, label, order) ==
    [airtableFieldId |-> id, airtableFieldName |-> "Name",
     airtableFieldType |-> "singleLineText", label |-> label, order |-> order]

DefaultSettings ==
    [allowMultipleSubmissions |-> TRUE, submitButtonText |-> "Submit"]

DefaultStats == [totalViews |-> 0, totalSubmissions |-> 0, conversionRate |-> 0]

NoDoc == [_id |-> 0]

----------------------------------------------------------------------------
(* Form model (models/Form.js) *)

\* Math.round(num / den) for num >= 0, den > 0: halves round up
MathRound(num, den) == (2 * num + den) \div (2 * den)

PreSaveForm_neverShares(doc, isNew) ==
    IF doc.stats.totalViews > 0
    THEN [doc EXCEPT !.stats.conversionRate =
             MathRound(doc.stats.totalSubmissions * 100, doc.stats.totalViews)]
    ELSE doc

\* formSchema.pre('save')
PreSaveForm(doc, isNew) ==
    LET d1 == IF isNew \/ doc.shareSettings.shareUrl = ""
              THEN [doc EXCEPT !.shareSettings =
                       [shareUrl |-> ToString(doc._id),
                        embedCode |-> "/embed/" \o ToString(doc._id)]]
              ELSE doc
    IN  IF d1.stats.totalViews > 0
        THEN [d1 EXCEPT !.stats.conversionRate =
                 MathRound(d1.stats.totalSubmissions * 100, d1.stats.totalViews)]
        ELSE d1

\* new Form({...}): schema defaults for what the caller leaves out
NewForm(id, userId, title, fields, settings, isActive, isPublished) ==
    [_id |-> id, userId |-> userId, title |-> title, fields |-> fields,
     settings |-> settings, isActive |-> isActive, isPublished |-> isPublished,
     stats |-> DefaultStats,
     shareSettings |-> [shareUrl |-> "", embedCode |-> ""]]

\* the paths of a nested object that the request changed
MergeLeaves(stored, loaded, doc) ==
    [p \in DOMAIN stored |-> IF doc[p] # loaded[p] THEN doc[p] ELSE stored[p]]

\* save() of a document read earlier: $set of the modified paths only
WriteBack(stored, loaded, doc) ==
    [_id |-> stored._id,
     userId |-> stored.userId,
     title |-> IF doc.title # loaded.title THEN doc.title ELSE stored.title,
     fields |-> IF doc.fields # loaded.fields THEN doc.fields ELSE stored.fields,
     settings |-> MergeLeaves(stored.settings, loaded.settings, doc.settings),
     isActive |-> IF doc.isActive # loaded.isActive
                  THEN doc.isActive ELSE stored.isActive,
     isPublished |-> IF doc.isPublished # loaded.isPublished
                     THEN doc.isPublished ELSE stored.isPublished,
     stats |-> MergeLeaves(stored.stats, loaded.stats, doc.stats),
     shareSettings |-> MergeLeaves(stored.shareSettings, loaded.shareSettings,
                                   doc.shareSettings)]

\* formSchema.methods.incrementViews, up to the save
incrementViews(doc) ==
    PreSaveForm([doc EXCEPT !.stats.totalViews = @ + 1], FALSE)

\* formSchema.methods.incrementSubmissions, up to the save
incrementSubmissions(doc) ==
    PreSaveForm([doc EXCEPT !.stats.totalSubmissions = @ + 1], FALSE)

----------------------------------------------------------------------------
(* Response model (models/Response.js) *)

\* new Response({formId, ...}): schema defaults
NewResponse(id, formId) ==
    [_id |-> id, formId |-> formId, status |-> "pending",
     errors |-> <<>>, airtableRecordId |-> "",
     syncStatus |-> [syncAttempts |-> 0, lastSyncError |-> "",
                     isSynced |-> FALSE, lastSyncAttempt |-> 0]]

----------------------------------------------------------------------------
(* Form API requests (routes/forms.js) *)

Reqs == 1 .. 2
FormIds == 1 .. MaxForms

Idle == [kind |-> "idle", pc |-> "idle", user |-> Anonymous, id |-> 0,
         loaded |-> NoDoc, doc |-> NoDoc]

NoAnswer == [kind |-> "none", user |-> Anonymous, id |-> 0, status |-> 0,
             detail |-> 0]

\* a new request takes the first slot that is not in use
Receive(r) == /\ req[r].pc = "idle"
              /\ \A q \in Reqs : q < r => req[q].pc # "idle"
              /\ started < MaxRequests
              /\ started' = started + 1

\* res.status(status).json(...): the request ends
Answer(r, kind, u, id, status, detail) ==
    /\ req' = [req EXCEPT ![r] = Idle]
    /\ last' = [kind |-> kind, user |-> u, id |-> id, status |-> status,
                detail |-> detail]

Respond(r, kind, u, id, status) == Answer(r, kind, u, id, status, 0)

\* the request waits for the store
Pend(r, rec) ==
    /\ req' = [req EXCEPT ![r] = rec]
    /\ UNCHANGED last

\* authenticateToken + checkOwnership(Form): 0 when the owner's document is
\* found, else the status the middleware answers with
Ownership(u, id) ==
    IF u = Anonymous THEN 401
    ELSE IF id \notin DOMAIN forms THEN 404
    ELSE IF forms[id].userId # u THEN 403
    ELSE 0

InvalidField_ignoresLabel(fields) ==
    LET bad == {i \in 1 .. Len(fields) :
                   \/ fields[i].airtableFieldId = ""
                   \/ fields[i].airtableFieldName = ""
                   \/ fields[i].airtableFieldType = ""}
    IN  IF bad = {} THEN 0 ELSE CHOOSE i \in bad : \A j \in bad : i <= j

\* the field validation loop of POST / and PUT /:id: the 1-based position of
\* the first entry that lacks a required property, 0 when there is none
InvalidField(fields) ==
    LET bad == {i \in 1 .. Len(fields) :
                   \/ fields[i].airtableFieldId = ""
                   \/ fields[i].airtableFieldName = ""
                   \/ fields[i].airtableFieldType = ""
                   \/ fields[i].label = ""}
    IN  IF bad = {} THEN 0 ELSE CHOOSE i \in bad : \A j \in bad : i <= j

\* fields.map((field, index) => ({...field, order: field.order || index}))
WithOrder(fields) ==
    [i \in 1 .. Len(fields) |->
        [fields[i] EXCEPT !.order = IF @ = NoOrder \/ @ = 0 THEN i - 1 ELSE @]]

\* {...form.settings.toObject(), ...settings}
Overlay(base, over) ==
    [k \in DOMAIN base |-> IF k \in DOMAIN over THEN over[k] ELSE base[k]]

\* req.user && form.userId.toString() === req.user.userId
isOwner(u, form) == u # Anonymous /\ form.userId = u

isPublic_anyFlag(form) == form.isPublished \/ form.isActive

\* form.isPublished && form.isActive
isPublic(form) == form.isPublished /\ form.isActive

\* GET /api/forms/:id, from findById to the call of save()
GetFind(r, u, id) ==
    /\ Receive(r)
    /\ IF id \notin DOMAIN forms
       THEN Respond(r, "get", u, id, 404)
       ELSE LET form == forms[id]
            IN  IF ~isOwner(u, form) /\ ~isPublic(form)
                THEN Respond(r, "get", u, id, 403)
                ELSE IF isPublic(form) /\ ~isOwner(u, form)
                THEN Pend(r, [Idle EXCEPT !.kind = "get", !.pc = "saving",
                                         !.user = u, !.id = id,
                                         !.loaded = form,
                                         !.doc = incrementViews(form)])
                ELSE Respond(r, "get", u, id, 200)
    /\ UNCHANGED <<forms, responses, nextFormId, nextRespId, viewsServed>>

\* GET /api/forms/:id, the save of incrementViews and the answer
GetSave(r) ==
    /\ req[r].kind = "get" /\ req[r].pc = "saving" /\ UNCHANGED started
    /\ IF req[r].id \in DOMAIN forms
       THEN /\ forms' = [forms EXCEPT ![req[r].id] =
                            WriteBack(@, req[r].loaded, req[r].doc)]
            /\ viewsServed' = [viewsServed EXCEPT ![req[r].id] = @ + 1]
            /\ Respond(r, "get", req[r].user, req[r].id, 200)
       ELSE /\ Respond(r, "get", req[r].user, req[r].id, 500)
            /\ UNCHANGED <<forms, viewsServed>>
    /\ UNCHANGED <<responses, nextFormId, nextRespId>>

\* PUT /api/forms/:id, from checkOwnership to the call of save()
PutBegin(r, u, id, body) ==
    /\ Receive(r)
    /\ IF Ownership(u, id) # 0
       THEN Respond(r, "put", u, id, Ownership(u, id))
       ELSE LET form == forms[id]
                d1 == IF body.title # "" THEN [form EXCEPT !.title = body.title]
                      ELSE form
                bad == IF IsSome(body.fields)
                       THEN InvalidField(Get(body.fields)) ELSE 0
                d2 == IF IsSome(body.fields)
                      THEN [d1 EXCEPT !.fields = WithOrder(Get(body.fields))]
                      ELSE d1
                d3 == IF IsSome(body.settings)
                      THEN [d2 EXCEPT !.settings = Overlay(@, Get(body.settings))]
                      ELSE d2
                d4 == IF IsSome(body.isActive)
                      THEN [d3 EXCEPT !.isActive = Get(body.isActive)] ELSE d3
                d5 == IF IsSome(body.isPublished)
                      THEN [d4 EXCEPT !.isPublished = Get(body.isPublished)]
                      ELSE d4
            IN  IF bad # 0
                THEN Answer(r, "put", u, id, 400, bad)
                ELSE Pend(r, [Idle EXCEPT !.kind = "put", !.pc = "saving",
                                          !.user = u, !.id = id, !.loaded = form,
                                          !.doc = PreSaveForm(d5, FALSE)])
    /\ UNCHANGED <<forms, responses, nextFormId, nextRespId, viewsServed>>

\* form.save() of a document read earlier, and the answer
SaveLoaded(r, kind, ok) ==
    /\ req[r].kind = kind /\ req[r].pc = "saving" /\ UNCHANGED started
    /\ IF req[r].id \in DOMAIN forms
       THEN /\ forms' = [forms EXCEPT ![req[r].id] =
                            WriteBack(@, req[r].loaded, req[r].doc)]
            /\ Respond(r, kind, req[r].user, req[r].id, ok)
       ELSE /\ Respond(r, kind, req[r].user, req[r].id, 500)
            /\ UNCHANGED forms
    /\ UNCHANGED <<responses, nextFormId, nextRespId, viewsServed>>

\* PUT /api/forms/:id, the save and the answer
PutSave(r) == SaveLoaded(r, "put", 200)

\* POST /api/forms/:id/publish, from checkOwnership to the call of save();
\* v is None when the body's isPublished is not a boolean
PublishBegin(r, u, id, v) ==
    /\ Receive(r)
    /\ IF Ownership(u, id) # 0
       THEN Respond(r, "publish", u, id, Ownership(u, id))
       ELSE IF ~IsSome(v)
       THEN Respond(r, "publish", u, id, 400)
       ELSE Pend(r, [Idle EXCEPT !.kind = "publish", !.pc = "saving",
                                 !.user = u, !.id = id, !.loaded = forms[id],
                                 !.doc = PreSaveForm(
                                     [forms[id] EXCEPT !.isPublished = Get(v)],
                                     FALSE)])
    /\ UNCHANGED <<forms, responses, nextFormId, nextRespId, viewsServed>>

\* POST /api/forms/:id/publish, the save and the answer
PublishSave(r) == SaveLoaded(r, "publish", 200)

\* DELETE /api/forms/:id, checkOwnership and the call of deleteMany
DeleteBegin(r, u, id) ==
    /\ Receive(r)
    /\ IF Ownership(u, id) # 0
       THEN Respond(r, "delete", u, id, Ownership(u, id))
       ELSE Pend(r, [Idle EXCEPT !.kind = "delete", !.pc = "cascade",
                                 !.user = u, !.id = id])
    /\ UNCHANGED <<forms, responses, nextFormId, nextRespId, viewsServed>>

\* DELETE /api/forms/:id, Response.deleteMany({formId}) runs on the store
DeleteResponses(r) ==
    /\ req[r].kind = "delete" /\ req[r].pc = "cascade" /\ UNCHANGED started
    /\ responses' = [x \in {y \in DOMAIN responses :
                               responses[y].formId # req[r].id} |-> responses[x]]
    /\ Pend(r, [req[r] EXCEPT !.pc = "removing"])
    /\ UNCHANGED <<forms, nextFormId, nextRespId, viewsServed>>

\* DELETE /api/forms/:id, Form.findByIdAndDelete runs on the store, the answer
DeleteForm(r) ==
    /\ req[r].kind = "delete" /\ req[r].pc = "removing" /\ UNCHANGED started
    /\ forms' = [x \in DOMAIN forms \ {req[r].id} |-> forms[x]]
    /\ Respond(r, "delete", req[r].user, req[r].id, 200)
    /\ UNCHANGED <<responses, nextFormId, nextRespId, viewsServed>>

DuplicateOf_keepsPublished(originalForm, id, u, title) ==
    NewForm(id, u,
            IF title # "" THEN title ELSE originalForm.title \o " (Copy)",
            originalForm.fields, originalForm.settings, TRUE,
            originalForm.isPublished)

\* the document POST /api/forms/:id/duplicate constructs from the original
DuplicateOf(originalForm, id, u, title) ==
    NewForm(id, u,
            IF title # "" THEN title ELSE originalForm.title \o " (Copy)",
            originalForm.fields, originalForm.settings, TRUE, FALSE)

\* POST /api/forms/:id/duplicate, from checkOwnership to the call of save();
\* title is "" when the body carries none
DuplicateBegin(r, u, id, title) ==
    /\ Receive(r)
    /\ IF Ownership(u, id) # 0
       THEN /\ Respond(r, "duplicate", u, id, Ownership(u, id))
            /\ UNCHANGED nextFormId
       ELSE /\ nextFormId <= MaxForms
            /\ LET originalForm == forms[id]
                   duplicateForm == DuplicateOf(originalForm, nextFormId, u, title)
               IN  Pend(r, [Idle EXCEPT !.kind = "duplicate", !.pc = "saving",
                                        !.user = u, !.id = id,
                                        !.doc = PreSaveForm(duplicateForm, TRUE)])
            /\ nextFormId' = nextFormId + 1
    /\ UNCHANGED <<forms, responses, nextRespId, viewsServed>>

\* POST /api/forms/:id/duplicate, the insert of the copy and the answer
DuplicateSave(r) ==
    /\ req[r].kind = "duplicate" /\ req[r].pc = "saving" /\ UNCHANGED started
    /\ forms' = [x \in DOMAIN forms \cup {req[r].doc._id} |->
                    IF x = req[r].doc._id THEN req[r].doc ELSE forms[x]]
    /\ Answer(r, "duplicate", req[r].user, req[r].id, 201, req[r].doc._id)
    /\ UNCHANGED <<responses, nextFormId, nextRespId, viewsServed>>

\* POST /api/forms: the validations answer 400; a body that passes them
\* reaches `new Form({... settings: {...form.settings, ...settings}})`, which
\* reads `form` inside its own initializer and throws, so the catch answers 500
CreateForm(r, u, body) ==
    /\ Receive(r)
    /\ LET status ==
               IF u = Anonymous THEN 401
               ELSE IF \/ body.title = "" \/ body.airtableBaseId = ""
                       \/ body.airtableTableId = "" \/ ~IsSome(body.fields)
               THEN 400
               ELSE IF Len(Get(body.fields)) = 0 THEN 400
               ELSE IF InvalidField(Get(body.fields)) # 0 THEN 400
               ELSE 500
           detail == IF status = 400 /\ IsSome(body.fields)
                        /\ body.title # "" /\ body.airtableBaseId # ""
                        /\ body.airtableTableId # ""
                     THEN InvalidField(Get(body.fields)) ELSE 0
       IN  Answer(r, "create", u, 0, status, detail)
    /\ UNCHANGED <<forms, responses, nextFormId, nextRespId, viewsServed>>

\* public submission to a form: the form is read and a Response constructed
SubmitBegin(r, id) ==
    /\ Receive(r)
    /\ IF id \notin DOMAIN forms
       THEN /\ Respond(r, "submit", Anonymous, id, 404)
            /\ UNCHANGED nextRespId
       ELSE IF ~isPublic(forms[id])
       THEN /\ Respond(r, "submit", Anonymous, id, 403)
            /\ UNCHANGED nextRespId
       ELSE /\ Pend(r, [Idle EXCEPT !.kind = "submit", !.pc = "creating",
                                     !.id = id, !.loaded = forms[id],
                                     !.doc = NewResponse(nextRespId, id)])
            /\ nextRespId' = nextRespId + 1
    /\ UNCHANGED <<forms, responses, nextFormId, viewsServed>>

\* public submission: the Response is inserted
SubmitCreate(r) ==
    /\ req[r].kind = "submit" /\ req[r].pc = "creating" /\ UNCHANGED started
    /\ responses' = [x \in DOMAIN responses \cup {req[r].doc._id} |->
                        IF x = req[r].doc._id THEN req[r].doc ELSE responses[x]]
    /\ Pend(r, [req[r] EXCEPT !.pc = "saving",
                               !.doc = incrementSubmissions(req[r].loaded)])
    /\ UNCHANGED <<forms, nextFormId, nextRespId, viewsServed>>

\* public submission: the save of form.incrementSubmissions() and the answer
SubmitCount(r) == SaveLoaded(r, "submit", 201)

----------------------------------------------------------------------------
(* The Form API as a system *)

Titles == {"", "T2"}

FieldsA == <<Field("f1", "Your Name", NoOrder)>>
FieldsB == <<Field("f1", "Your Name", 1), Field("f2", "City", 0)>>
FieldsBad == <<Field("f1", "Your Name", NoOrder), Field("f2", "", NoOrder)>>

NoBody == [title |-> "", fields |-> None, settings |-> None,
           isActive |-> None, isPublished |-> None]

PutBodies ==
    {[NoBody EXCEPT !.title = "T2", !.fields = Some(FieldsB),
                    !.settings = Some([submitButtonText |-> "Send"])],
     [NoBody EXCEPT !.title = "T2", !.fields = Some(FieldsBad)],
     [NoBody EXCEPT !.isActive = Some(FALSE)]}

CreateBodies ==
    {[title |-> t, airtableBaseId |-> "app1", airtableTableId |-> "tbl1",
      fields |-> f] : t \in {"", "T1"},
                      f \in {None, Some(<<>>), Some(FieldsA), Some(FieldsBad)}}

InitialForm(active, published) ==
    PreSaveForm(NewForm(1, "u1", "T1", WithOrder(FieldsA), DefaultSettings,
                        active, published), TRUE)

InitForms ==
    /\ started = 0
    /\ \E a \in BOOLEAN, p \in BOOLEAN : forms = (1 :> InitialForm(a, p))
    /\ responses = <<>>
    /\ req = [r \in Reqs |-> Idle]
    /\ last = NoAnswer
    /\ nextFormId = 2
    /\ nextRespId = 1
    /\ viewsServed = [f \in FormIds |-> 0]

NextForms ==
    \E r \in Reqs :
        \/ \E u \in Requesters, id \in FormIds : GetFind(r, u, id)
        \/ GetSave(r)
        \/ \E u \in Requesters, id \in FormIds, b \in PutBodies :
              PutBegin(r, u, id, b)
        \/ PutSave(r)
        \/ \E u \in Requesters, id \in FormIds, v \in {None, Some(TRUE), Some(FALSE)} :
              PublishBegin(r, u, id, v)
        \/ PublishSave(r)
        \/ \E u \in Requesters, id \in FormIds : DeleteBegin(r, u, id)
        \/ DeleteResponses(r)
        \/ DeleteForm(r)
        \/ \E u \in Requesters, id \in FormIds, t \in Titles :
              DuplicateBegin(r, u, id, t)
        \/ DuplicateSave(r)
        \/ \E u \in Requesters, b \in CreateBodies : CreateForm(r, u, b)
        \/ \E id \in FormIds : SubmitBegin(r, id)
        \/ SubmitCreate(r)
        \/ SubmitCount(r)

----------------------------------------------------------------------------
(* Sync bookkeeping of a Response (models/Response.js) *)

\* responseSchema.methods.addError, up to the save
addError_overwrites(doc, message, t) ==
    [doc EXCEPT !.errors = <<[message |-> message]>>,
                !.status = "failed"]

updateSyncAttempt_double(doc, error, t) ==
    LET d == [doc EXCEPT !.syncStatus.syncAttempts = @ + 2,
                         !.syncStatus.lastSyncAttempt = t]
    IN  IF error # ""
        THEN [d EXCEPT !.syncStatus.lastSyncError = error, !.status = "failed"]
        ELSE d

addError(doc, message, t) ==
    [doc EXCEPT !.errors = Append(@, [message |-> message]),
                !.status = "failed"]

markAsSynced_keepsFlag(doc, airtableRecordId, t) ==
    [doc EXCEPT !.airtableRecordId = airtableRecordId,
                !.status = "synced",
                !.syncStatus.lastSyncAttempt = t]

\* responseSchema.methods.markAsSynced, up to the save
markAsSynced(doc, airtableRecordId, t) ==
    [doc EXCEPT !.airtableRecordId = airtableRecordId,
                !.status = "synced",
                !.syncStatus.isSynced = TRUE,
                !.syncStatus.lastSyncAttempt = t]

\* responseSchema.methods.updateSyncAttempt, up to the save; error is "" for
\* a call without argument
updateSyncAttempt(doc, error, t) ==
    LET d == [doc EXCEPT !.syncStatus.syncAttempts = @ + 1,
                         !.syncStatus.lastSyncAttempt = t]
    IN  IF error # ""
        THEN [d EXCEPT !.syncStatus.lastSyncError = error, !.status = "failed"]
        ELSE d

findPendingSync_inclusive(store) ==
    {x \in DOMAIN store :
        /\ store[x].syncStatus.isSynced = FALSE
        /\ store[x].syncStatus.syncAttempts <= MaxSyncAttempts
        /\ store[x].status # "synced"}

\* responseSchema.statics.findPendingSync: the ids of the documents returned
findPendingSync(store) ==
    {x \in DOMAIN store :
        /\ store[x].syncStatus.isSynced = FALSE
        /\ store[x].syncStatus.syncAttempts < MaxSyncAttempts
        /\ store[x].status # "synced"}

\* save() of a Response read earlier: $set of the modified paths, $push of
\* the entries appended to errors
WriteBackResponse(stored, loaded, doc) ==
    [_id |-> stored._id,
     formId |-> stored.formId,
     status |-> IF doc.status # loaded.status THEN doc.status ELSE stored.status,
     errors |-> stored.errors \o
                SubSeq(doc.errors, Len(loaded.errors) + 1, Len(doc.errors)),
     airtableRecordId |-> IF doc.airtableRecordId # loaded.airtableRecordId
                          THEN doc.airtableRecordId ELSE stored.airtableRecordId,
     syncStatus |-> MergeLeaves(stored.syncStatus, loaded.syncStatus,
                                doc.syncStatus)]

----------------------------------------------------------------------------
(* The sync worker: passes over the pending Responses *)

Workers == 1 .. 2
RespIds == 1 .. 2

\* what the external API answers to the creation of the record: the id of
\* the record, or the message of the 422
Outcomes == {"rec1", "INVALID_VALUE_FOR_COLUMN"}
Failed(outcome) == outcome = "INVALID_VALUE_FOR_COLUMN"

\* new Date(): a time after the last sync attempt the document records
Later(doc) == doc.syncStatus.lastSyncAttempt + 1

\* the documents of the store with these ids, in the order of their ids
RECURSIVE InOrder(_, _)
InOrder(store, ids) ==
    IF ids = {} THEN <<>>
    ELSE LET x == CHOOSE y \in ids : \A z \in ids : y <= z
         IN  <<store[x]>> \o InOrder(store, ids \ {x})

IdleWorker == [pc |-> "idle", batch |-> <<>>, loaded |-> NoDoc, doc |-> NoDoc,
               outcome |-> ""]

\* a pass starts: the worker reads the pending Responses
PassQuery(w) ==
    /\ worker[w].pc = "idle"
    /\ worker' = [worker EXCEPT ![w] =
          [IdleWorker EXCEPT !.pc = "queried",
                             !.batch = InOrder(responses,
                                                findPendingSync(responses))]]
    /\ UNCHANGED responses

\* one sync attempt on the next Response of the batch: the external API has
\* answered, updateSyncAttempt counts the attempt and saves
SyncAttempt(w, outcome) ==
    /\ worker[w].pc = "queried"
    /\ worker[w].batch # <<>>
    /\ Head(worker[w].batch)._id \in DOMAIN responses
    /\ LET d == Head(worker[w].batch)
           doc == updateSyncAttempt(d, IF Failed(outcome) THEN outcome ELSE "",
                                    Later(d))
       IN  /\ responses' = [responses EXCEPT ![d._id] = WriteBackResponse(@, d, doc)]
           /\ worker' = [worker EXCEPT ![w] =
                 [pc |-> "attempted", batch |-> Tail(worker[w].batch),
                  loaded |-> d, doc |-> doc, outcome |-> outcome]]

\* the attempt is recorded: addError after a failure, markAsSynced after a
\* success, and the save
SyncRecord(w) ==
    /\ worker[w].pc = "attempted"
    /\ worker[w].doc._id \in DOMAIN responses
    /\ LET d == worker[w].doc
           doc == IF Failed(worker[w].outcome)
                  THEN addError(d, worker[w].outcome, Later(d))
                  ELSE markAsSynced(d, worker[w].outcome, Later(d))
       IN  /\ responses' = [responses EXCEPT ![d._id] = WriteBackResponse(@, d, doc)]
           /\ worker' = [worker EXCEPT ![w] =
                 [pc |-> "queried", batch |-> worker[w].batch,
                  loaded |-> d, doc |-> doc, outcome |-> worker[w].outcome]]

\* the pass ends when every Response of the batch has been attempted
PassEnd(w) ==
    /\ worker[w].pc = "queried"
    /\ worker[w].batch = <<>>
    /\ worker' = [worker EXCEPT ![w] = IdleWorker]
    /\ UNCHANGED responses

InitSync ==
    /\ responses = [x \in RespIds |-> NewResponse(x, 1)]
    /\ worker = [w \in Workers |-> IdleWorker]

NextSync ==
    \E w \in Workers :
        \/ PassQuery(w)
        \/ \E o \in Outcomes : SyncAttempt(w, o)
        \/ SyncRecord(w)
        \/ PassEnd(w)

----------------------------------------------------------------------------
(* The sync methods called one after the other on a stored Response *)

\* the number of calls a Response created with the defaults has seen
CallsOn(doc) == doc.syncStatus.lastSyncAttempt + Len(doc.errors)

\* response.addError(message), response.updateSyncAttempt(error) and
\* response.markAsSynced(id) on the stored Response x, each with its save
CallAddError(x, message) ==
    /\ CallsOn(responses[x]) < MaxCalls
    /\ responses' = [responses EXCEPT ![x] =
          WriteBackResponse(@, @, addError(@, message, Later(@)))]

CallUpdateSyncAttempt(x, error) ==
    /\ CallsOn(responses[x]) < MaxCalls
    /\ responses' = [responses EXCEPT ![x] =
          WriteBackResponse(@, @, updateSyncAttempt(@, error, Later(@)))]

CallMarkAsSynced(x, airtableRecordId) ==
    /\ CallsOn(responses[x]) < MaxCalls
    /\ responses' = [responses EXCEPT ![x] =
          WriteBackResponse(@, @, markAsSynced(@, airtableRecordId, Later(@)))]

NextMethods ==
    /\ \E x \in RespIds :
          \/ CallAddError(x, "INVALID_VALUE_FOR_COLUMN")
          \/ \E error \in {"", "INVALID_VALUE_FOR_COLUMN"} :
                CallUpdateSyncAttempt(x, error)
          \/ CallMarkAsSynced(x, "rec1")
    /\ UNCHANGED worker

----------------------------------------------------------------------------
(* OAuth routes (routes/auth.js) *)

Cbs == 1 .. 2
States == {"s1", "s2"}          \* values of crypto.randomBytes(16).toString('hex')
Verifiers == {"v1"}             \* values of crypto.randomBytes(32).toString('base64url')
Codes == {"", "c1"}             \* req.query.code, "" when absent
StateParams == {""} \cup States \* req.query.state, "" when absent
ErrorParams == {"", "access_denied"}

NoSession == [oauthState |-> "", codeVerifier |-> ""]

IdleCb == [pc |-> "idle", code |-> "", state |-> ""]

NoCbAnswer == [route |-> "none", code |-> "", state |-> "", result |-> "",
               stateMatch |-> FALSE, token |-> None]

\* generateToken: jwt.sign({userId}, JWT_SECRET, {expiresIn: '7d'}), the
\* signed token as its payload and its lifetime
generateToken(userId) == [userId |-> userId, expiresIn |-> "7d"]

\* the data of the provider's answer to an accepted token request
TokenData == [access_token |-> "at1", refresh_token |-> "rt1", expires_in |-> 3600]

\* a user as the OAuth flow stores it
NoExpiry == -1

\* a user as the OAuth flow stores it; "" is an absent refresh token and
\* NoExpiry an absent airtableTokenExpiresAt
InitialUser ==
    [_id |-> "u1", email |-> "u1@example.com", airtableUserId |-> "usr1",
     airtableAccessToken |-> "at0", airtableRefreshToken |-> "rt0",
     airtableTokenExpiresAt |-> 1, profile |-> [name |-> <<"A">>],
     isActive |-> TRUE]

\* a user the provider gave no refresh token and no expiry, deactivated
SecondUser ==
    [_id |-> "u2", email |-> "u2@example.com", airtableUserId |-> "usr2",
     airtableAccessToken |-> "at9", airtableRefreshToken |-> "",
     airtableTokenExpiresAt |-> NoExpiry, profile |-> [name |-> <<"B">>],
     isActive |-> FALSE]

ReceiveCb(c) == /\ cb[c].pc = "idle"
                /\ \A q \in Cbs : q < c => cb[q].pc # "idle"
                /\ cbStarted < MaxCallbacks
                /\ cbStarted' = cbStarted + 1

\* res.json(...): token is the `token` property of the body, None without it
AnswerCb(route, code, state, result, stateMatch, token) ==
    lastCb' = [route |-> route, code |-> code, state |-> state,
               result |-> result, stateMatch |-> stateMatch, token |-> token]

\* GET /api/auth/airtable: state and verifier are put in the session, the
\* save is started and the authorization URL is answered
Authorize(state, verifier) ==
    /\ session' = [session EXCEPT !.pending =
                      Some([oauthState |-> state, codeVerifier |-> verifier])]
    /\ lastCb' = [NoCbAnswer EXCEPT !.route = "airtable", !.state = state,
                                    !.result = "authUrl"]
    /\ UNCHANGED <<cb, cbStarted, exchanges, users>>

\* the callback of req.session.save: the store has the session, or the save
\* failed and the error is logged
SessionSave(ok) ==
    /\ IsSome(session.pending)
    /\ session' = [stored |-> IF ok THEN Get(session.pending) ELSE session.stored,
                   pending |-> None]
    /\ UNCHANGED <<cb, lastCb, cbStarted, exchanges, users>>

\* GET /api/auth/airtable-simple: the state is put in the session, which the
\* session middleware saves with the answer
AuthorizeSimple(state) ==
    /\ session' = [session EXCEPT !.stored.oauthState = state]
    /\ lastCb' = [NoCbAnswer EXCEPT !.route = "airtable-simple", !.state = state,
                                    !.result = "authUrl"]
    /\ UNCHANGED <<cb, cbStarted, exchanges, users>>

\* GET /api/auth/airtable/simple-callback, up to the token request
SimpleCallback(c, code, state, error) ==
    /\ ReceiveCb(c)
    /\ IF error # ""
       THEN /\ AnswerCb("simple-callback", code, state, "error", FALSE, None)
            /\ UNCHANGED <<cb, exchanges>>
       ELSE IF code = ""
       THEN /\ AnswerCb("simple-callback", code, state, "No code", FALSE, None)
            /\ UNCHANGED <<cb, exchanges>>
       ELSE /\ cb' = [cb EXCEPT ![c] =
                   [pc |-> "exchanging", code |-> code, state |-> state]]
            /\ exchanges' = exchanges + 1
            /\ UNCHANGED lastCb
    /\ UNCHANGED <<session, users>>

\* GET /api/auth/airtable/simple-callback: the provider has answered the
\* token request, the answer carries its token data or its error
SimpleCallbackAnswer(c, ok) ==
    /\ cb[c].pc = "exchanging"
    /\ AnswerCb("simple-callback", cb[c].code, cb[c].state,
                IF ok THEN "success" ELSE "tokenError", FALSE,
                IF ok THEN Some(TokenData) ELSE None)
    /\ cb' = [cb EXCEPT ![c] = IdleCb]
    /\ UNCHANGED <<session, cbStarted, exchanges, users>>

\* GET /api/auth/airtable/test-callback
TestCallback(c, code, state, error) ==
    /\ ReceiveCb(c)
    /\ IF error # ""
       THEN AnswerCb("test-callback", code, state, "error", FALSE, None)
       ELSE AnswerCb("test-callback", code, state, "Test callback successful!",
                     state = session.stored.oauthState, None)
    /\ UNCHANGED <<session, cb, exchanges, users>>

InitAuth ==
    /\ session = [stored |-> NoSession, pending |-> None]
    /\ cb = [c \in Cbs |-> IdleCb]
    /\ lastCb = NoCbAnswer
    /\ cbStarted = 0
    /\ exchanges = 0
    /\ users = [u \in {"u1"} |-> InitialUser]

NextAuth ==
    \/ \E s \in States, v \in Verifiers : Authorize(s, v)
    \/ \E ok \in BOOLEAN : SessionSave(ok)
    \/ \E s \in States : AuthorizeSimple(s)
    \/ \E c \in Cbs, code \in Codes, s \in StateParams, e \in ErrorParams :
          SimpleCallback(c, code, s, e)
    \/ \E c \in Cbs, ok \in BOOLEAN : SimpleCallbackAnswer(c, ok)
    \/ \E c \in Cbs, code \in Codes, s \in StateParams, e \in ErrorParams :
          TestCallback(c, code, s, e)

----------------------------------------------------------------------------
(* User model (models/User.js) and the private routes of routes/auth.js *)

\* userSchema.methods.isTokenExpired at time t
isTokenExpired(user, t) ==
    IF user.airtableTokenExpiresAt = NoExpiry THEN FALSE
    ELSE t > user.airtableTokenExpiresAt

\* userSchema.methods.toJSON
toJSON(user) ==
    [k \in DOMAIN user \ {"airtableAccessToken", "airtableRefreshToken"} |-> user[k]]

\* String.prototype.trim on a name given as its characters
RECURSIVE TrimLeft(_)
TrimLeft(name) ==
    IF name # <<>> /\ Head(name) = " " THEN TrimLeft(Tail(name)) ELSE name

RECURSIVE TrimRight(_)
TrimRight(name) ==
    IF name # <<>> /\ name[Len(name)] = " "
    THEN TrimRight(SubSeq(name, 1, Len(name) - 1)) ELSE name

Trim(name) == TrimRight(TrimLeft(name))

WriteBackUser_wholeDocument(stored, loaded, doc) == doc

\* user.save() of a document read earlier: $set of the modified paths only
WriteBackUser(stored, loaded, doc) ==
    [stored EXCEPT
       !.airtableAccessToken =
           IF doc.airtableAccessToken # loaded.airtableAccessToken
           THEN doc.airtableAccessToken ELSE @,
       !.airtableRefreshToken =
           IF doc.airtableRefreshToken # loaded.airtableRefreshToken
           THEN doc.airtableRefreshToken ELSE @,
       !.airtableTokenExpiresAt =
           IF doc.airtableTokenExpiresAt # loaded.airtableTokenExpiresAt
           THEN doc.airtableTokenExpiresAt ELSE @,
       !.profile.name =
           IF doc.profile.name # loaded.profile.name THEN doc.profile.name ELSE @]

UReqs == 1 .. 2
Names == {<<>>, <<" ">>, <<"C", " ">>}
ExpiresIn == 1

IdleU == [route |-> "idle", pc |-> "idle", user |-> Anonymous,
          loaded |-> NoDoc, doc |-> NoDoc]

NoUAnswer == [route |-> "none", user |-> Anonymous, status |-> 0,
              body |-> [message |-> ""]]

\* the data of the provider's answer to an accepted refresh request: a fresh
\* access token, and a fresh refresh token when the provider rotates it
RefreshData(n, rotates) ==
    [access_token |-> "at" \o ToString(n),
     refresh_token |-> IF rotates THEN "rt" \o ToString(n) ELSE "",
     expires_in |-> ExpiresIn]

ReceiveU(r) == /\ ureq[r].pc = "idle"
               /\ \A q \in UReqs : q < r => ureq[q].pc # "idle"
               /\ uStarted < MaxUserRequests
               /\ uStarted' = uStarted + 1

\* res.status(status).json(body): the request ends
AnswerU(r, route, u, status, body) ==
    /\ ureq' = [ureq EXCEPT ![r] = IdleU]
    /\ lastU' = [route |-> route, user |-> u, status |-> status, body |-> body]

PendU(r, rec) ==
    /\ ureq' = [ureq EXCEPT ![r] = rec]
    /\ UNCHANGED lastU

\* authenticateToken: a request without a valid session token is answered 401
Unauthenticated(u) == u = Anonymous

\* User.findById(req.user.userId): None when there is no such document
FindUser(u) == IF u \in DOMAIN users THEN Some(users[u]) ELSE None

\* the clock advances
Tick ==
    /\ now < MaxTime
    /\ now' = now + 1
    /\ UNCHANGED <<users, ureq, lastU, uStarted, issued>>

\* POST /api/auth/refresh, from authenticateToken to the refresh request
RefreshBegin(r, u) ==
    /\ ReceiveU(r)
    /\ IF Unauthenticated(u)
       THEN AnswerU(r, "refresh", u, 401, [message |-> "Unauthorized"])
       ELSE IF ~IsSome(FindUser(u)) \/ Get(FindUser(u)).airtableRefreshToken = ""
       THEN AnswerU(r, "refresh", u, 401,
                    [message |-> "No refresh token available"])
       ELSE PendU(r, [IdleU EXCEPT !.route = "refresh", !.pc = "provider",
                                   !.user = u, !.loaded = Get(FindUser(u))])
    /\ UNCHANGED <<users, now, issued>>

\* POST /api/auth/refresh: the provider has answered the refresh request;
\* an error is answered 500, else the tokens are set and save() is called.
\* The round trip to the provider takes time: no two of its answers are
\* handled at the same instant.
RefreshProvider(r, ok, rotates) ==
    /\ ureq[r].route = "refresh" /\ ureq[r].pc = "provider"
    /\ now' = now + 1
    /\ IF ~ok
       THEN /\ AnswerU(r, "refresh", ureq[r].user, 500,
                       [message |-> "Failed to refresh token"])
            /\ UNCHANGED issued
       ELSE LET data == RefreshData(issued + 1, rotates)
                user == ureq[r].loaded
            IN  /\ PendU(r, [ureq[r] EXCEPT !.pc = "saving", !.doc =
                       [user EXCEPT
                          !.airtableAccessToken = data.access_token,
                          !.airtableRefreshToken =
                              IF data.refresh_token # ""
                              THEN data.refresh_token ELSE @,
                          !.airtableTokenExpiresAt = now' + data.expires_in]])
                /\ issued' = issued + 1
    /\ UNCHANGED <<users, uStarted>>

\* user.save() of a document read earlier, and the answer; the save of a
\* document that is gone throws and the catch answers 500
SaveUser(r, route, body, failure) ==
    /\ ureq[r].route = route /\ ureq[r].pc = "saving"
    /\ IF ureq[r].user \in DOMAIN users
       THEN /\ users' = [users EXCEPT ![ureq[r].user] =
                            WriteBackUser(@, ureq[r].loaded, ureq[r].doc)]
            /\ AnswerU(r, route, ureq[r].user, 200, body)
       ELSE /\ AnswerU(r, route, ureq[r].user, 500, [message |-> failure])
            /\ UNCHANGED users
    /\ UNCHANGED <<uStarted, now, issued>>

\* POST /api/auth/refresh, the save and the answer
RefreshSave(r) ==
    SaveUser(r, "refresh", [message |-> "Token refreshed successfully"],
             "Failed to refresh token")

\* GET /api/auth/me
Me(r, u) ==
    /\ ReceiveU(r)
    /\ IF Unauthenticated(u)
       THEN AnswerU(r, "me", u, 401, [message |-> "Unauthorized"])
       ELSE IF ~IsSome(FindUser(u))
       THEN AnswerU(r, "me", u, 404, [message |-> "User not found"])
       ELSE IF isTokenExpired(Get(FindUser(u)), now)
       THEN AnswerU(r, "me", u, 401,
                    [message |-> "Token expired", needsRefresh |-> TRUE])
       ELSE AnswerU(r, "me", u, 200, toJSON(Get(FindUser(u))))
    /\ UNCHANGED <<users, now, issued>>

\* POST /api/auth/verify
Verify(r, u) ==
    /\ ReceiveU(r)
    /\ IF Unauthenticated(u)
       THEN AnswerU(r, "verify", u, 401, [message |-> "Unauthorized"])
       ELSE IF ~IsSome(FindUser(u))
       THEN AnswerU(r, "verify", u, 404,
                    [valid |-> FALSE, message |-> "User not found"])
       ELSE LET user == Get(FindUser(u))
            IN  IF ~user.isActive
                THEN AnswerU(r, "verify", u, 403,
                             [valid |-> FALSE, message |-> "Account is inactive"])
                ELSE IF isTokenExpired(user, now)
                THEN AnswerU(r, "verify", u, 200,
                             [valid |-> TRUE, needsRefresh |-> TRUE])
                ELSE AnswerU(r, "verify", u, 200,
                             [valid |-> TRUE,
                              user |-> [id |-> user._id, email |-> user.email,
                                        profile |-> user.profile]])
    /\ UNCHANGED <<users, now, issued>>

\* POST /api/auth/update-profile, from authenticateToken to the call of save()
UpdateProfileBegin(r, u, name) ==
    /\ ReceiveU(r)
    /\ IF Unauthenticated(u)
       THEN AnswerU(r, "update-profile", u, 401, [message |-> "Unauthorized"])
       ELSE IF name = <<>> \/ Trim(name) = <<>>
       THEN AnswerU(r, "update-profile", u, 400, [message |-> "Name is required"])
       ELSE IF ~IsSome(FindUser(u))
       THEN AnswerU(r, "update-profile", u, 404, [message |-> "User not found"])
       ELSE PendU(r, [IdleU EXCEPT !.route = "update-profile", !.pc = "saving",
                                   !.user = u, !.loaded = Get(FindUser(u)),
                                   !.doc = [Get(FindUser(u)) EXCEPT
                                               !.profile.name = Trim(name)]])
    /\ UNCHANGED <<users, now, issued>>

\* POST /api/auth/update-profile, the save and the answer with the user
UpdateProfileSave(r) ==
    SaveUser(r, "update-profile",
             [message |-> "Profile updated successfully",
              user |-> toJSON(ureq[r].doc)],
             "Failed to update profile")

InitUsers ==
    /\ users = ("u1" :> InitialUser) @@ ("u2" :> SecondUser)
    /\ ureq = [r \in UReqs |-> IdleU]
    /\ lastU = NoUAnswer
    /\ uStarted = 0
    /\ now = 0
    /\ issued = 0

NextUsers ==
    \/ Tick
    \/ \E r \in UReqs :
        \/ \E u \in Requesters : RefreshBegin(r, u)
        \/ \E ok \in BOOLEAN, rotates \in BOOLEAN : RefreshProvider(r, ok, rotates)
        \/ RefreshSave(r)
        \/ \E u \in Requesters : Me(r, u)
        \/ \E u \in Requesters : Verify(r, u)
        \/ \E u \in Requesters, name \in Names : UpdateProfileBegin(r, u, name)
        \/ UpdateProfileSave(r)

\* DELETE /api/auth/account, from authenticateToken to Form.find
AccountBegin(r, u) ==
    /\ ReceiveU(r)
    /\ IF Unauthenticated(u)
       THEN AnswerU(r, "account", u, 401, [message |-> "Unauthorized"])
       ELSE IF ~IsSome(FindUser(u))
       THEN AnswerU(r, "account", u, 404, [message |-> "User not found"])
       ELSE PendU(r, [IdleU EXCEPT !.route = "account", !.pc = "forms",
                                   !.user = u])
    /\ UNCHANGED <<forms, responses, users, session, now, issued>>

\* DELETE /api/auth/account: Form.find({userId}) runs on the store; the
\* request keeps the ids of the forms it found
AccountFindForms(r) ==
    /\ ureq[r].route = "account" /\ ureq[r].pc = "forms"
    /\ PendU(r, [ureq[r] EXCEPT !.pc = "responses", !.loaded =
                    [_id |-> 0,
                     formIds |-> {f \in DOMAIN forms :
                                     forms[f].userId = ureq[r].user}]])
    /\ UNCHANGED <<forms, responses, users, session, uStarted, now, issued>>

\* DELETE /api/auth/account: Response.deleteMany({formId: {$in: formIds}})
AccountDeleteResponses(r) ==
    /\ ureq[r].route = "account" /\ ureq[r].pc = "responses"
    /\ responses' = [x \in {y \in DOMAIN responses :
                               responses[y].formId \notin ureq[r].loaded.formIds}
                        |-> responses[x]]
    /\ PendU(r, [ureq[r] EXCEPT !.pc = "removing"])
    /\ UNCHANGED <<forms, users, session, uStarted, now, issued>>

\* DELETE /api/auth/account: Form.deleteMany({userId})
AccountDeleteForms(r) ==
    /\ ureq[r].route = "account" /\ ureq[r].pc = "removing"
    /\ forms' = [x \in {y \in DOMAIN forms : forms[y].userId # ureq[r].user}
                    |-> forms[x]]
    /\ PendU(r, [ureq[r] EXCEPT !.pc = "user"])
    /\ UNCHANGED <<responses, users, session, uStarted, now, issued>>

\* DELETE /api/auth/account: User.findByIdAndDelete, the session is
\* destroyed and the answer sent
AccountDeleteUser(r) ==
    /\ ureq[r].route = "account" /\ ureq[r].pc = "user"
    /\ users' = [x \in DOMAIN users \ {ureq[r].user} |-> users[x]]
    /\ session' = [stored |-> NoSession, pending |-> None]
    /\ AnswerU(r, "account", ureq[r].user, 200,
               [message |-> "Account and all associated data deleted successfully"])
    /\ UNCHANGED <<forms, responses, uStarted, now, issued>>

\* account deletion next to the requests that add Forms and Responses
NextAccount ==
    \/ /\ \E r \in UReqs :
             \/ \E u \in Users : AccountBegin(r, u)
             \/ AccountFindForms(r)
             \/ AccountDeleteResponses(r)
             \/ AccountDeleteForms(r)
             \/ AccountDeleteUser(r)
       /\ UNCHANGED <<started, req, last, nextFormId, nextRespId, viewsServed,
                      syncVars, cb, lastCb, cbStarted, exchanges, clientVars, airtableVars, restVars>>
    \/ /\ \E r \in Reqs :
             \/ \E u \in Users, id \in FormIds : DuplicateBegin(r, u, id, "")
             \/ DuplicateSave(r)
             \/ \E id \in FormIds : SubmitBegin(r, id)
             \/ SubmitCreate(r)
             \/ SubmitCount(r)
       /\ UNCHANGED <<syncVars, authVars, userVars, clientVars, airtableVars, restVars>>

----------------------------------------------------------------------------
(* Client: AuthContext (frontend/src/contexts/AuthContext.js) *)

SessionTokens == {"jwt1"}
UserData == [name |-> "A"]
ProfileData == [name |-> "B"]

\* initialState, with what localStorage.getItem('token') gave
initialState(token) ==
    [user |-> None, token |-> token, isAuthenticated |-> FALSE,
     loading |-> TRUE, error |-> None]

authReducer_logoutKeepsFlag(state, action) ==
    CASE action.type = "LOGIN_START" ->
           [state EXCEPT !.loading = TRUE, !.error = None]
      [] action.type = "LOGIN_SUCCESS" ->
           [state EXCEPT !.user = action.payload.user,
                         !.token = action.payload.token,
                         !.isAuthenticated = TRUE, !.loading = FALSE,
                         !.error = None]
      [] action.type = "LOGIN_FAILURE" ->
           [state EXCEPT !.user = None, !.token = None,
                         !.isAuthenticated = FALSE, !.loading = FALSE,
                         !.error = Some(action.payload)]
      [] action.type = "LOGOUT" ->
           [state EXCEPT !.user = None, !.token = None,
                         !.loading = FALSE, !.error = None]
      [] action.type = "SET_LOADING" ->
           [state EXCEPT !.loading = action.payload]
      [] action.type = "CLEAR_ERROR" ->
           [state EXCEPT !.error = None]
      [] action.type = "UPDATE_USER" ->
           [state EXCEPT !.user = Some(action.payload)]
      [] OTHER -> state

\* authReducer
authReducer(state, action) ==
    CASE action.type = "LOGIN_START" ->
           [state EXCEPT !.loading = TRUE, !.error = None]
      [] action.type = "LOGIN_SUCCESS" ->
           [state EXCEPT !.user = action.payload.user,
                         !.token = action.payload.token,
                         !.isAuthenticated = TRUE, !.loading = FALSE,
                         !.error = None]
      [] action.type = "LOGIN_FAILURE" ->
           [state EXCEPT !.user = None, !.token = None,
                         !.isAuthenticated = FALSE, !.loading = FALSE,
                         !.error = Some(action.payload)]
      [] action.type = "LOGOUT" ->
           [state EXCEPT !.user = None, !.token = None,
                         !.isAuthenticated = FALSE, !.loading = FALSE,
                         !.error = None]
      [] action.type = "SET_LOADING" ->
           [state EXCEPT !.loading = action.payload]
      [] action.type = "CLEAR_ERROR" ->
           [state EXCEPT !.error = None]
      [] action.type = "UPDATE_USER" ->
           [state EXCEPT !.user = Some(action.payload)]
      [] OTHER -> state

Dispatch(type, payload) == [type |-> type, payload |-> payload]

\* a call in flight: the function that awaits it; token, the state.token of
\* the render that function belongs to (for handleAuthCallback its argument);
\* via, the state.token of the render whose interceptors were installed when
\* the request was made and so handle its answer; and for a refresh whether
\* the handling of the 401 that started it took the token out of the state
\* or out of localStorage (history); depth, the number of requests whose
\* answers led to this one (history): 0 for a call of the application
Call(fn, token, via, dropped) ==
    [fn |-> fn, token |-> token, via |-> via, dropped |-> dropped, depth |-> 0]

\* the call made while the answer to a request of this depth is handled
Follows(call, depth) == [call EXCEPT !.depth = depth + 1]

\* the answers the server gives, as far as the client tells them apart
Ok == [status |-> 200, needsRefresh |-> FALSE]
Expired == [status |-> 401, needsRefresh |-> TRUE]
Unauthorized == [status |-> 401, needsRefresh |-> FALSE]
Failure == [status |-> 500, needsRefresh |-> FALSE]

AnswersOf(fn) ==
    CASE fn \in {"getCurrentUser", "handleAuthCallback", "fetch"} ->
           {Ok, Expired, Unauthorized, Failure}
      [] OTHER -> {Ok, Unauthorized, Failure}

\* the client as a value: the reducer state, localStorage and the calls
Client == [auth |-> auth, local |-> localToken, calls |-> calls]

\* the end of logout(): finally { localStorage.removeItem; dispatch(LOGOUT) }
FinishLogout(c) ==
    [c EXCEPT !.local = None,
              !.auth = authReducer(@, Dispatch("LOGOUT", None))]

logout_alwaysPosts(c, token, depth) ==
    [c EXCEPT !.calls = Append(@, Follows(Call("logout", token, c.auth.token,
                                               FALSE), depth))]

\* logout() of a render whose state.token is token, up to its await: the
\* POST is sent only when there is a token; depth is -1 for a call from the
\* user interface
logout(c, token, depth) ==
    IF token # None
    THEN [c EXCEPT !.calls = Append(@, Follows(Call("logout", token, c.auth.token,
                                                    FALSE), depth))]
    ELSE FinishLogout(c)

\* refreshToken() of a render whose state.token is token, up to its await
refreshToken(c, token, depth) ==
    [c EXCEPT !.calls = Append(@, Follows(Call("refreshToken", token,
                                                c.auth.token, FALSE), depth))]

\* responseInterceptor of a render whose state.token is token, for an answer
\* that is an error to a request of this depth
responseInterceptor(c, answer, token, depth) ==
    IF answer.status = 401
    THEN IF answer.needsRefresh THEN refreshToken(c, token, depth)
         ELSE logout(c, token, depth)
    ELSE c

\* history: the refresh that the handling of a 401 with needsRefresh started
\* (the call issued last) records whether that handling, from client `before`
\* to client `after`, took the token away
Marked(before, after, answer) ==
    IF answer = Expired
    THEN [after EXCEPT !.calls[Len(after.calls)].dropped =
             \/ after.auth.token # before.auth.token
             \/ after.local # before.local]
    ELSE after

\* catch of getCurrentUser and of handleAuthCallback
LoginFailure(c) ==
    [c EXCEPT !.auth = authReducer(@, Dispatch("LOGIN_FAILURE", "failed")),
              !.local = None]

Without(seq, i) == SubSeq(seq, 1, i - 1) \o SubSeq(seq, i + 1, Len(seq))

Becomes(c) ==
    /\ \A i \in 1 .. Len(c.calls) : c.calls[i].depth <= MaxChain
    /\ auth' = c.auth
    /\ localToken' = c.local
    /\ calls' = c.calls

UserStarts ==
    /\ mounted
    /\ issuedCalls < MaxClientCalls
    /\ issuedCalls' = issuedCalls + 1
    /\ UNCHANGED <<lastRefresh, mounted>>

\* the mount effect: getCurrentUser() when there is a token
Mount ==
    /\ ~mounted
    /\ mounted' = TRUE
    /\ IF auth.token # None
       THEN Becomes([Client EXCEPT
                !.auth = authReducer(@, Dispatch("SET_LOADING", TRUE)),
                !.calls = Append(@, Call("getCurrentUser", auth.token, auth.token,
                                         FALSE))])
       ELSE Becomes([Client EXCEPT
                !.auth = authReducer(@, Dispatch("SET_LOADING", FALSE))])
    /\ UNCHANGED <<issuedCalls, lastRefresh>>

\* loginWithAirtable(), up to its await
LoginWithAirtable ==
    /\ UserStarts
    /\ Becomes([Client EXCEPT
           !.auth = authReducer(@, Dispatch("LOGIN_START", None)),
           !.calls = Append(@, Call("loginWithAirtable", auth.token, auth.token,
                                    FALSE))])

\* handleAuthCallback(token), up to its await
HandleAuthCallback(token) ==
    /\ UserStarts
    /\ Becomes([Client EXCEPT
           !.local = Some(token),
           !.calls = Append(@, Call("handleAuthCallback", Some(token), auth.token,
                                    FALSE))])

\* a call of the form pages through the same axios (fetchBases, fetchForms)
Fetch ==
    /\ UserStarts
    /\ Becomes([Client EXCEPT
           !.calls = Append(@, Call("fetch", auth.token, auth.token, FALSE))])

\* logout() from the user interface
Logout ==
    /\ UserStarts
    /\ Becomes(logout(Client, auth.token, -1))

\* deleteAccount(), up to its await
DeleteAccount ==
    /\ UserStarts
    /\ Becomes([Client EXCEPT
           !.calls = Append(@, Call("deleteAccount", auth.token, auth.token,
                                    FALSE))])

\* updateUser(userData); the spread of state.user and the payload is the
\* payload here, every user value having the one property
UpdateUser ==
    /\ mounted
    /\ Becomes([Client EXCEPT
           !.auth = authReducer(@, Dispatch("UPDATE_USER", ProfileData))])
    /\ UNCHANGED <<issuedCalls, lastRefresh, mounted>>

\* the server answers call i: the response interceptor runs, then the rest
\* of the function that awaited the call
Answered(i, answer) ==
    /\ i \in 1 .. Len(calls)
    /\ answer \in AnswersOf(calls[i].fn)
    /\ LET call == calls[i]
           c0 == [Client EXCEPT !.calls = Without(@, i)]
           c1 == IF answer = Ok THEN c0
                 ELSE responseInterceptor(c0, answer, call.via, call.depth)
       IN  /\ CASE call.fn \in {"getCurrentUser", "handleAuthCallback"} ->
                     IF answer = Ok
                     THEN Becomes([c1 EXCEPT !.auth =
                              authReducer(@, Dispatch("LOGIN_SUCCESS",
                                  [user |-> Some(UserData), token |-> call.token]))])
                     ELSE Becomes(Marked(c0, LoginFailure(c1), answer))
                [] call.fn = "loginWithAirtable" ->
                     IF answer = Ok THEN Becomes(c1)
                     ELSE Becomes([c1 EXCEPT !.auth =
                              authReducer(@, Dispatch("LOGIN_FAILURE", "failed"))])
                [] call.fn = "fetch" -> Becomes(Marked(c0, c1, answer))
                [] call.fn = "refreshToken" ->
                     IF answer = Ok THEN Becomes(c1)
                     ELSE Becomes(logout(c1, call.token, call.depth))
                [] call.fn = "logout" -> Becomes(FinishLogout(c1))
                [] call.fn = "deleteAccount" ->
                     IF answer = Ok THEN Becomes(FinishLogout(c1)) ELSE Becomes(c1)
           /\ lastRefresh' = IF call.fn = "refreshToken"
                             THEN [status |-> answer.status, dropped |-> call.dropped]
                             ELSE lastRefresh
    /\ UNCHANGED <<issuedCalls, mounted>>

InitClient ==
    /\ localToken \in {None} \cup {Some(t) : t \in SessionTokens}
    /\ auth = initialState(localToken)
    /\ calls = <<>>
    /\ issuedCalls = 0
    /\ lastRefresh = [status |-> 0, dropped |-> FALSE]
    /\ mounted = FALSE

NextClient ==
    \/ Mount
    \/ LoginWithAirtable
    \/ \E t \in SessionTokens : HandleAuthCallback(t)
    \/ Fetch
    \/ Logout
    \/ DeleteAccount
    \/ UpdateUser
    \/ \E i \in 1 .. Len(calls), a \in {Ok, Expired, Unauthorized, Failure} :
          Answered(i, a)

----------------------------------------------------------------------------
(* Airtable routes (routes/airtable.js) *)

AReqs == 1 .. 2
Routes == {"bases", "tables", "fields", "createRecord", "records",
           "test-connection"}

\* what a call of makeAirtableRequest ends with: the status of the upstream
\* answer, or NoResponse for a failure without an answer (error.response is
\* undefined)
NoResponse == 0
NoCall == -1
UpstreamStatuses == {200, 401, 403, 404, 422, 500, NoResponse}

IdleA == [route |-> "idle", user |-> Anonymous]

NoAAnswer == [route |-> "none", upstream |-> NoCall, status |-> 0,
              needsRefresh |-> FALSE]

ReceiveA(r) == /\ areq[r].route = "idle"
               /\ \A q \in AReqs : q < r => areq[q].route # "idle"
               /\ aStarted < MaxAirtableRequests
               /\ aStarted' = aStarted + 1

\* res.status(status).json(...): the request ends
AnswerA(r, route, upstream, status, needsRefresh) ==
    /\ areq' = [areq EXCEPT ![r] = IdleA]
    /\ lastA' = [route |-> route, upstream |-> upstream, status |-> status,
                 needsRefresh |-> needsRefresh]

\* the catch of a route: the answer to a failed makeAirtableRequest
Caught(r, route, upstream) ==
    IF upstream = 401 THEN AnswerA(r, route, upstream, 401, TRUE)
    ELSE IF route = "tables" /\ upstream = 404
    THEN AnswerA(r, route, upstream, 404, FALSE)
    ELSE IF route = "createRecord" /\ upstream = 422
    THEN AnswerA(r, route, upstream, 422, FALSE)
    ELSE AnswerA(r, route, upstream, 500, FALSE)

\* a request to an Airtable route, up to makeAirtableRequest; fieldsSent is
\* whether the body of a create carries a fields object
AirtableBegin(r, u, route, fieldsSent) ==
    /\ ReceiveA(r)
    /\ IF Unauthenticated(u)
       THEN AnswerA(r, route, NoCall, 401, FALSE)
       ELSE IF route = "createRecord" /\ ~fieldsSent
       THEN AnswerA(r, route, NoCall, 400, FALSE)
       ELSE /\ areq' = [areq EXCEPT ![r] = [route |-> route, user |-> u]]
            /\ UNCHANGED lastA

\* makeAirtableRequest has ended: with the data of a 200 answer, or by
\* throwing; tableFound is whether data.tables has the table of a fields
\* request
AirtableEnd(r, upstream, tableFound) ==
    /\ areq[r].route # "idle"
    /\ IF upstream = 200
       THEN IF areq[r].route = "fields" /\ ~tableFound
            THEN AnswerA(r, areq[r].route, upstream, 404, FALSE)
            ELSE AnswerA(r, areq[r].route, upstream, 200, FALSE)
       ELSE Caught(r, areq[r].route, upstream)
    /\ UNCHANGED aStarted

InitAirtable ==
    /\ areq = [r \in AReqs |-> IdleA]
    /\ lastA = NoAAnswer
    /\ aStarted = 0

NextAirtable ==
    \E r \in AReqs :
        \/ \E u \in Requesters, route \in Routes, fieldsSent \in BOOLEAN :
              AirtableBegin(r, u, route, fieldsSent)
        \/ \E upstream \in UpstreamStatuses, tableFound \in BOOLEAN :
              AirtableEnd(r, upstream, tableFound)

----------------------------------------------------------------------------
(* Saving a Response (models/Response.js) *)

\* the values of an answer: a text, the empty string, null
AnswerValues == {"text", "", "null"}

\* truthiness of a value
Truthy(v) == v # "" /\ v # "null"

\* metadata.completionPercentage of the submitted data; NotSupplied when the
\* data has none (undefined)
NotSupplied == -1
Percentages == {NotSupplied, 0, 50, 100}

DefaultCompletion == 100

RECURSIVE SeqsUpTo(_, _)
SeqsUpTo(S, n) ==
    IF n = 0 THEN {<<>>}
    ELSE LET shorter == SeqsUpTo(S, n - 1)
         IN  shorter \cup {Append(q, v) : q \in shorter, v \in S}

\* this.responses.filter(r => r.value && r.value !== '' && r.value !== null)
completedFields(answers) ==
    SelectSeq(answers, LAMBDA v : Truthy(v) /\ v # "" /\ v # "null")

\* responseSchema.pre('save'): the percentage the document leaves with
PreSaveResponse(doc) ==
    IF doc.completionPercentage = NotSupplied \/ doc.completionPercentage = 0
    THEN [doc EXCEPT !.completionPercentage =
             IF Len(doc.responses) > 0
             THEN MathRound(Len(completedFields(doc.responses)) * 100,
                            Len(doc.responses))
             ELSE 0]
    ELSE doc

NoResponseDoc == [responses |-> <<>>, completionPercentage |-> NotSupplied]

\* new Response(data): the schema's default fills a missing percentage
Construct ==
    /\ rsave.pc = "data"
    /\ rsave' = [rsave EXCEPT
          !.pc = "built",
          !.doc = [responses |-> rsave.data.responses,
                   completionPercentage |->
                       IF rsave.data.completionPercentage = NotSupplied
                       THEN DefaultCompletion
                       ELSE rsave.data.completionPercentage]]

\* save(): the pre('save') hook runs, then the document is stored
SaveResponse ==
    /\ rsave.pc = "built"
    /\ rsave' = [rsave EXCEPT !.pc = "saved", !.doc = PreSaveResponse(rsave.doc)]

InitSave ==
    \E answers \in SeqsUpTo(AnswerValues, MaxAnswers), supplied \in Percentages :
        rsave = [pc |-> "data",
                 data |-> [responses |-> answers,
                           completionPercentage |-> supplied],
                 doc |-> NoResponseDoc]

NextSave == Construct \/ SaveResponse

IdleSave ==
    rsave = [pc |-> "idle", data |-> NoResponseDoc, doc |-> NoResponseDoc]

----------------------------------------------------------------------------
(* FormContext (contexts/FormContext.js) *)

\* a property of an object: undefined (None) when the object has none
Prop(obj, name) == IF name \in DOMAIN obj THEN Some(obj[name]) ELSE None

\* initialState of the FormContext
formInitialState ==
    [forms |-> <<>>, currentForm |-> None, bases |-> {}, tables |-> {},
     fields |-> {}, loading |-> FALSE]

\* formReducer
formReducer(state, action) ==
    CASE action.type = "SET_LOADING" -> [state EXCEPT !.loading = action.payload]
      [] action.type = "SET_ERROR" -> [state EXCEPT !.loading = FALSE]
      [] action.type = "ADD_FORM" ->
           [state EXCEPT !.forms = <<action.payload>> \o @]
      [] action.type = "UPDATE_FORM" ->
           [state EXCEPT
              !.forms = [i \in 1 .. Len(@) |->
                            IF Prop(@[i], "_id") = Prop(action.payload, "_id")
                            THEN action.payload ELSE @[i]],
              !.currentForm =
                  IF (IF @ = None THEN None ELSE Prop(Get(@), "_id"))
                        = Prop(action.payload, "_id")
                  THEN Some(action.payload) ELSE @]
      [] action.type = "SET_BASES" -> [state EXCEPT !.bases = action.payload]
      [] action.type = "SET_TABLES" -> [state EXCEPT !.tables = action.payload]
      [] action.type = "SET_FIELDS" -> [state EXCEPT !.fields = action.payload]
      [] OTHER -> state

\* the finally of the functions that fetch: setLoading(false)
Loaded(state) == formReducer(state, Dispatch("SET_LOADING", FALSE))

\* their catch: setError(message), then the finally
Errored(state) == Loaded(formReducer(state, Dispatch("SET_ERROR", "failed")))

Request(kind, base, table) == [kind |-> kind, base |-> base, table |-> table]

\* a request is made: it joins those in flight
Sends(q) ==
    /\ q \notin inflight
    /\ Cardinality(inflight) < MaxInflight
    /\ inflight' = inflight \cup {q}

----------------------------------------------------------------------------
(* The FormBuilder wizard (pages/FormBuilder.js) *)

\* what the Airtable account holds: bases, the tables of a base, the fields
\* of a table
WizardBases == {"b1", "b2"}
TablesOf(b) == IF b = "b1" THEN {"t1"} ELSE IF b = "b2" THEN {"t2"} ELSE {}
FieldsOf(t) == IF t = "t1" THEN {"f1", "f2"} ELSE IF t = "t2" THEN {"f3"} ELSE {}
WizardTitles == {<<" ">>, <<"T">>}

\* null, for the selections
Nothing == ""

LastStep == 4

TestRequest == Request("test", Nothing, Nothing)
Timer == Request("timer", Nothing, Nothing)
BasesRequest == Request("bases", Nothing, Nothing)
CreateRequest == Request("create", Nothing, Nothing)

\* useState: currentStep and formData; created once navigate() has left the
\* page
InitialWizard ==
    [currentStep |-> 0, selectedBase |-> Nothing, selectedTable |-> Nothing,
     selectedFields |-> <<>>, title |-> <<>>, created |-> FALSE, clicks |-> 0]

\* the user acts on the page: the page is still there, and the count of the
\* actions (history) goes up
Clicked(w) ==
    /\ ~wizard.created
    /\ wizard.clicks < MaxClicks
    /\ wizard' = [w EXCEPT !.clicks = @ + 1]

\* handleFieldToggle: the new selectedFields
handleFieldToggle(selectedFields, field) ==
    IF \E i \in 1 .. Len(selectedFields) : selectedFields[i].id = field
    THEN SelectSeq(selectedFields, LAMBDA f : f.id # field)
    ELSE Append(selectedFields,
                [id |-> field, order |-> Len(selectedFields)])

\* canProceed
canProceed(w) ==
    CASE w.currentStep = 0 -> FALSE
      [] w.currentStep = 1 -> w.selectedBase # Nothing
      [] w.currentStep = 2 -> w.selectedTable # Nothing
      [] w.currentStep = 3 -> Len(w.selectedFields) > 0
      [] w.currentStep = 4 -> Trim(w.title) # <<>>
      [] OTHER -> FALSE

\* the fields of the payload of handleCreateForm
formPayload(w) ==
    [i \in 1 .. Len(w.selectedFields) |->
        [airtableFieldId |-> w.selectedFields[i].id,
         order |-> w.selectedFields[i].order]]

\* testAirtableConnection() has ended: a success starts the timer of a second
TestAnswered(ok) ==
    /\ TestRequest \in inflight
    /\ inflight' = (inflight \ {TestRequest}) \cup (IF ok THEN {Timer} ELSE {})
    /\ UNCHANGED <<wizard, ctx, lastPayload>>

\* the timer fires: setCurrentStep(1) and loadBases()
TimerFires ==
    /\ Timer \in inflight
    /\ BasesRequest \notin inflight
    /\ inflight' = (inflight \ {Timer}) \cup {BasesRequest}
    /\ wizard' = [wizard EXCEPT !.currentStep = 1]
    /\ ctx' = formReducer(ctx, Dispatch("SET_LOADING", TRUE))
    /\ UNCHANGED lastPayload

\* getBases() has ended
BasesAnswered(ok) ==
    /\ BasesRequest \in inflight
    /\ inflight' = inflight \ {BasesRequest}
    /\ ctx' = IF ok
              THEN Loaded(formReducer(ctx, Dispatch("SET_BASES", WizardBases)))
              ELSE Errored(ctx)
    /\ UNCHANGED <<wizard, lastPayload>>

\* getTables(baseId) has ended, and handleBaseSelect with it
TablesAnswered(q, ok) ==
    /\ q \in inflight /\ q.kind = "tables"
    /\ inflight' = inflight \ {q}
    /\ IF ok
       THEN /\ ctx' = Loaded(formReducer(ctx, Dispatch("SET_TABLES",
                                                        TablesOf(q.base))))
            /\ wizard' = [wizard EXCEPT !.currentStep = 2]
       ELSE /\ ctx' = Errored(ctx)
            /\ UNCHANGED wizard
    /\ UNCHANGED lastPayload

\* getFields(baseId, tableId) has ended, and handleTableSelect with it; the
\* server finds the table among those of the base, or answers 404
FieldsAnswered(q, ok) ==
    /\ q \in inflight /\ q.kind = "fields"
    /\ ok => q.table \in TablesOf(q.base)
    /\ inflight' = inflight \ {q}
    /\ IF ok
       THEN /\ ctx' = Loaded(formReducer(ctx, Dispatch("SET_FIELDS",
                                                        FieldsOf(q.table))))
            /\ wizard' = [wizard EXCEPT !.currentStep = 3]
       ELSE /\ ctx' = Errored(ctx)
            /\ UNCHANGED wizard
    /\ UNCHANGED lastPayload

\* createForm(formPayload) has ended, and handleCreateForm with it
CreateAnswered(ok) ==
    /\ CreateRequest \in inflight
    /\ inflight' = inflight \ {CreateRequest}
    /\ IF ok
       THEN /\ ctx' = Loaded(formReducer(ctx, Dispatch("ADD_FORM",
                         [_id |-> 1, title |-> wizard.title,
                          isPublished |-> FALSE])))
            /\ wizard' = [wizard EXCEPT !.created = TRUE]
       ELSE /\ ctx' = Errored(ctx)
            /\ UNCHANGED wizard
    /\ UNCHANGED lastPayload

\* handleBaseSelect(base), up to its await; the bases are on the page at
\* step 1 when nothing is loading
handleBaseSelect(b) ==
    /\ wizard.currentStep = 1 /\ ~ctx.loading /\ b \in ctx.bases
    /\ Clicked([wizard EXCEPT !.selectedBase = b,
                                !.selectedTable = Nothing,
                                !.selectedFields = <<>>])
    /\ ctx' = formReducer(ctx, Dispatch("SET_LOADING", TRUE))
    /\ Sends(Request("tables", b, Nothing))
    /\ UNCHANGED lastPayload

\* handleTableSelect(table), up to its await; the tables are on the page at
\* step 2 when nothing is loading
handleTableSelect(t) ==
    /\ wizard.currentStep = 2 /\ ~ctx.loading /\ t \in ctx.tables
    /\ Clicked([wizard EXCEPT !.selectedTable = t, !.selectedFields = <<>>])
    /\ ctx' = formReducer(ctx, Dispatch("SET_LOADING", TRUE))
    /\ Sends(Request("fields", wizard.selectedBase, t))
    /\ UNCHANGED lastPayload

\* the checkbox of a field, at step 3
ToggleField(f) ==
    /\ wizard.currentStep = 3 /\ f \in ctx.fields
    /\ Clicked([wizard EXCEPT !.selectedFields = handleFieldToggle(@, f)])
    /\ UNCHANGED <<ctx, inflight, lastPayload>>

\* the title input, at the last step
TypeTitle(title) ==
    /\ wizard.currentStep = LastStep
    /\ wizard.title # title
    /\ Clicked([wizard EXCEPT !.title = title])
    /\ UNCHANGED <<ctx, inflight, lastPayload>>

\* the Previous button; back at step 0 the effect tests the connection again
Previous ==
    /\ wizard.currentStep > 0
    /\ Clicked([wizard EXCEPT !.currentStep = @ - 1])
    /\ IF wizard.currentStep = 1 THEN Sends(TestRequest) ELSE UNCHANGED inflight
    /\ UNCHANGED <<ctx, lastPayload>>

\* the Next button
NextStep ==
    /\ wizard.currentStep < LastStep
    /\ canProceed(wizard)
    /\ Clicked([wizard EXCEPT !.currentStep = @ + 1])
    /\ UNCHANGED <<ctx, inflight, lastPayload>>

\* the Create Form button: handleCreateForm, up to its await
handleCreateForm ==
    /\ wizard.currentStep = LastStep
    /\ canProceed(wizard) /\ ~ctx.loading
    /\ Trim(wizard.title) # <<>>
    /\ Len(wizard.selectedFields) # 0
    /\ lastPayload' = Some(formPayload(wizard))
    /\ ctx' = formReducer(ctx, Dispatch("SET_LOADING", TRUE))
    /\ Sends(CreateRequest)
    /\ Clicked(wizard)

\* the page is mounted: the effect of step 0 tests the connection
InitWizard ==
    /\ wizard = InitialWizard
    /\ ctx = formInitialState
    /\ inflight = {TestRequest}
    /\ lastPayload = None
    /\ lastPublish = None

NextWizard ==
    /\ \/ \E ok \in BOOLEAN : TestAnswered(ok)
       \/ TimerFires
       \/ \E ok \in BOOLEAN : BasesAnswered(ok)
       \/ \E q \in inflight, ok \in BOOLEAN : TablesAnswered(q, ok)
       \/ \E q \in inflight, ok \in BOOLEAN : FieldsAnswered(q, ok)
       \/ \E ok \in BOOLEAN : CreateAnswered(ok)
       \/ \E b \in WizardBases : handleBaseSelect(b)
       \/ \E t \in UNION {TablesOf(b) : b \in WizardBases} : handleTableSelect(t)
       \/ \E f \in {"f1", "f2", "f3"} : ToggleField(f)
       \/ \E title \in WizardTitles : TypeTitle(title)
       \/ Previous
       \/ NextStep
       \/ handleCreateForm
    /\ UNCHANGED lastPublish

----------------------------------------------------------------------------
(* The list of forms of the FormContext and publishForm *)

ListedIds == {1, 2}

\* an entry of GET /api/forms
Listed(id, isPublished) ==
    [_id |-> id, title |-> <<"T">>, isPublished |-> isPublished,
     stats |-> DefaultStats]

\* the form of the answer of POST /api/forms/:id/publish
PublishAnswer(id, isPublished) ==
    [id |-> id, isPublished |-> isPublished, shareUrl |-> "share"]

PublishRequest(id, isPublished) ==
    [kind |-> "publish", id |-> id, isPublished |-> isPublished]

\* publishForm(id, isPublished), up to its await
publishForm(id, isPublished) ==
    /\ Sends(PublishRequest(id, isPublished))
    /\ UNCHANGED <<ctx, lastPublish>>

\* publishForm has ended: UPDATE_FORM with the form of the answer, or the
\* catch
PublishAnswered(q, ok) ==
    /\ q \in inflight /\ q.kind = "publish"
    /\ inflight' = inflight \ {q}
    /\ ctx' = IF ok
              THEN formReducer(ctx, Dispatch("UPDATE_FORM",
                                             PublishAnswer(q.id, q.isPublished)))
              ELSE ctx
    /\ lastPublish' = Some([id |-> q.id, isPublished |-> q.isPublished, ok |-> ok])

\* the dashboard has loaded the list of forms; a form may be open
InitContext ==
    /\ \E p1, p2 \in BOOLEAN :
          \E current \in {None, Some(Listed(1, p1))} :
             ctx = [formInitialState EXCEPT
                       !.forms = <<Listed(1, p1), Listed(2, p2)>>,
                       !.currentForm = current]
    /\ inflight = {}
    /\ lastPublish = None
    /\ wizard = InitialWizard
    /\ lastPayload = None

NextContext ==
    /\ \/ \E id \in ListedIds, v \in BOOLEAN : publishForm(id, v)
       \/ \E q \in inflight, ok \in BOOLEAN : PublishAnswered(q, ok)
    /\ UNCHANGED <<wizard, lastPayload>>

IdleContext ==
    /\ wizard = InitialWizard
    /\ ctx = formInitialState
    /\ inflight = {}
    /\ lastPayload = None
    /\ lastPublish = None

IdleRest == IdleSave /\ IdleContext

IdleApi ==
    /\ started = 0
    /\ forms = <<>>
    /\ req = [r \in Reqs |-> Idle]
    /\ last = NoAnswer
    /\ nextFormId = 1
    /\ nextRespId = 1
    /\ viewsServed = [f \in FormIds |-> 0]

IdleSync ==
    /\ worker = [w \in Workers |-> IdleWorker]

IdleAuth ==
    /\ session = [stored |-> NoSession, pending |-> None]
    /\ cb = [c \in Cbs |-> IdleCb]
    /\ lastCb = NoCbAnswer
    /\ cbStarted = 0
    /\ exchanges = 0
    /\ users = <<>>

IdleResponses == responses = <<>>

IdleUsers ==
    /\ ureq = [r \in UReqs |-> IdleU]
    /\ lastU = NoUAnswer
    /\ uStarted = 0
    /\ now = 0
    /\ issued = 0

IdleClient ==
    /\ auth = initialState(None)
    /\ localToken = None
    /\ calls = <<>>
    /\ issuedCalls = 0
    /\ lastRefresh = [status |-> 0, dropped |-> FALSE]
    /\ mounted = FALSE

IdleOAuth ==
    /\ session = [stored |-> NoSession, pending |-> None]
    /\ cb = [c \in Cbs |-> IdleCb]
    /\ lastCb = NoCbAnswer
    /\ cbStarted = 0
    /\ exchanges = 0

Init == InitForms /\ IdleSync /\ IdleAuth /\ IdleUsers /\ IdleClient /\ InitAirtable /\ IdleRest

Next == NextForms /\ UNCHANGED <<syncVars, authVars, userVars, clientVars, airtableVars, restVars>>

Spec == Init /\ [][Next]_vars

SyncInit == InitSync /\ IdleApi /\ IdleAuth /\ IdleUsers /\ IdleClient /\ InitAirtable /\ IdleRest

SyncNext == NextSync /\ UNCHANGED <<apiVars, authVars, userVars, clientVars, airtableVars, restVars>>

SpecSync == SyncInit /\ [][SyncNext]_vars

MethodsNext == NextMethods /\ UNCHANGED <<apiVars, authVars, userVars, clientVars, airtableVars, restVars>>

SpecMethods == SyncInit /\ [][MethodsNext]_vars

AuthInit == InitAuth /\ IdleApi /\ IdleResponses /\ IdleSync /\ IdleUsers /\ IdleClient /\ InitAirtable /\ IdleRest

AuthNext == NextAuth /\ UNCHANGED <<apiVars, responses, syncVars, userVars, clientVars, airtableVars, restVars>>

SpecAuth == AuthInit /\ [][AuthNext]_vars

UsersInit == InitUsers /\ IdleApi /\ IdleResponses /\ IdleSync /\ IdleOAuth /\ IdleClient /\ InitAirtable /\ IdleRest

UsersNext == NextUsers /\ UNCHANGED <<apiVars, responses, syncVars, oauthVars, clientVars, airtableVars, restVars>>

SpecUsers == UsersInit /\ [][UsersNext]_vars

AccountInit == InitForms /\ InitUsers /\ IdleSync /\ IdleOAuth /\ IdleClient /\ InitAirtable /\ IdleRest

SpecAccount == AccountInit /\ [][NextAccount]_vars

ClientInit ==
    /\ InitClient /\ IdleApi /\ IdleResponses /\ IdleSync /\ IdleAuth /\ IdleUsers
    /\ InitAirtable /\ IdleRest

ClientNext ==
    NextClient /\ UNCHANGED <<apiVars, responses, syncVars, authVars, userVars,
                              airtableVars, restVars>>

SpecClient == ClientInit /\ [][ClientNext]_vars

\* every request is answered in the end: by the server, or by the failure of
\* the transport
ClientFairness ==
    WF_vars(\E i \in 1 .. Len(calls), a \in {Ok, Expired, Unauthorized, Failure} :
               Answered(i, a) /\ UNCHANGED <<apiVars, responses, syncVars,
                                             authVars, userVars, airtableVars,
                                             restVars>>)

\* the client with the calls that log in and log out
LogoutNext ==
    /\ \/ Mount
       \/ \E t \in SessionTokens : HandleAuthCallback(t)
       \/ Logout
       \/ \E i \in 1 .. Len(calls), a \in {Ok, Expired, Unauthorized, Failure} :
             Answered(i, a)
    /\ UNCHANGED <<apiVars, responses, syncVars, authVars, userVars,
                   airtableVars, restVars>>

SpecLogout == ClientInit /\ [][LogoutNext]_vars /\ ClientFairness

AirtableInit ==
    /\ IdleRest
    /\ InitAirtable /\ IdleApi /\ IdleResponses /\ IdleSync /\ IdleAuth /\ IdleUsers
    /\ IdleClient

AirtableNext ==
    NextAirtable /\ UNCHANGED <<apiVars, responses, syncVars, authVars, userVars,
                                clientVars, restVars>>

SpecAirtable == AirtableInit /\ [][AirtableNext]_vars

SaveInit ==
    /\ InitSave /\ InitAirtable /\ IdleApi /\ IdleResponses /\ IdleSync /\ IdleAuth
    /\ IdleUsers /\ IdleClient /\ IdleContext

SaveNext ==
    NextSave /\ UNCHANGED <<apiVars, responses, syncVars, authVars, userVars,
                            clientVars, airtableVars, contextVars>>

SpecSave == SaveInit /\ [][SaveNext]_vars

IdleServer ==
    /\ InitAirtable /\ IdleApi /\ IdleResponses /\ IdleSync /\ IdleAuth
    /\ IdleUsers /\ IdleClient /\ IdleSave

serverVars == <<apiVars, responses, syncVars, authVars, userVars, clientVars,
                airtableVars, saveVars>>

WizardInit == InitWizard /\ IdleServer

WizardNext == NextWizard /\ UNCHANGED serverVars

SpecWizard == WizardInit /\ [][WizardNext]_vars

ContextInit == InitContext /\ IdleServer

ContextNext == NextContext /\ UNCHANGED serverVars

SpecContext == ContextInit /\ [][ContextNext]_vars

----------------------------------------------------------------------------
(* Claims about the Form API *)

\* request slot r receives a request of this kind for form id from requester u
\* (it is either waiting for the store afterwards or answered at once)
Arrives(r, kind, u, id) ==
    /\ req[r].pc = "idle"
    /\ \A q \in Reqs : q < r => req[q].pc # "idle"
    /\ started' = started + 1
    /\ \/ req'[r].kind = kind /\ req'[r].user = u /\ req'[r].id = id
       \/ /\ req' = req
          /\ last'.kind = kind /\ last'.user = u /\ last'.id = id

\* C1: a GET by a requester who is not the owner (anonymous or another user)
\* of a form that is inactive or unpublished is answered 403 at once and the
\* Form collection, so the form's stats.totalViews, is left as it was.
C1_DeniedReadLeavesViews ==
    [][\A r \in Reqs, u \in Requesters, id \in DOMAIN forms :
          (/\ Arrives(r, "get", u, id)
           /\ u # forms[id].userId
           /\ ~forms[id].isActive \/ ~forms[id].isPublished)
          => /\ last'.status = 403
             /\ req'[r].pc = "idle"
             /\ forms' = forms]_vars

C1_Witness ==
    /\ last.kind = "get" /\ last.status = 403
    /\ last.user # "u1"
    /\ last.id \in DOMAIN forms
    /\ ~forms[last.id].isActive \/ ~forms[last.id].isPublished
    /\ forms[last.id].stats.totalViews > 0

\* C2: the stored stats.totalViews of a form has grown by one for every
\* non-owner GET of it that was answered 200, overlapping ones included.
C2_EveryReadCounted ==
    \A f \in DOMAIN forms : forms[f].stats.totalViews = viewsServed[f]

\* C3: when DELETE /api/forms/:id is answered 200, no Response whose formId is
\* the deleted form's id is left in the Response collection.
C3_NoOrphanAfterDelete ==
    [][\A r \in Reqs :
          (req[r].kind = "delete" /\ req[r].pc = "removing" /\ req'[r].pc = "idle")
          => \A x \in DOMAIN responses' : responses'[x].formId # req[r].id]_vars

\* C4: every stored Form has stats.conversionRate equal to
\* round(100 * totalSubmissions / totalViews) when totalViews > 0, else 0.
C4_ConversionRate ==
    \A f \in DOMAIN forms :
        forms[f].stats.conversionRate =
            IF forms[f].stats.totalViews > 0
            THEN MathRound(100 * forms[f].stats.totalSubmissions,
                           forms[f].stats.totalViews)
            ELSE 0

ValidCreateBody(b) ==
    /\ b.title # "" /\ b.airtableBaseId # "" /\ b.airtableTableId # ""
    /\ IsSome(b.fields)
    /\ Len(Get(b.fields)) > 0
    /\ \A i \in 1 .. Len(Get(b.fields)) :
          /\ Get(b.fields)[i].airtableFieldId # ""
          /\ Get(b.fields)[i].airtableFieldName # ""
          /\ Get(b.fields)[i].airtableFieldType # ""
          /\ Get(b.fields)[i].label # ""

\* C12: POST /api/forms by an authenticated user with a valid body answers
\* 201 and stores a new Form; with the scenario's single field sent without
\* `order`, the stored fields[0].order is 0.
C12_CreateStoresForm ==
    [][\A r \in Reqs, u \in Users, b \in CreateBodies :
          (ValidCreateBody(b) /\ CreateForm(r, u, b))
          => /\ last'.status = 201
             /\ \E f \in DOMAIN forms' \ DOMAIN forms :
                   b.fields = Some(FieldsA) => forms'[f].fields[1].order = 0]_vars

\* the positions (from 1) of the entries of a fields list sent with a request
\* that lack a required property; empty when no list is sent
Lacking(fields) ==
    IF ~IsSome(fields) THEN {}
    ELSE {i \in 1 .. Len(Get(fields)) :
             \/ Get(fields)[i].airtableFieldId = ""
             \/ Get(fields)[i].airtableFieldName = ""
             \/ Get(fields)[i].airtableFieldType = ""
             \/ Get(fields)[i].label = ""}

\* request r is answered 400 naming the first position of `lacking`, it is
\* over, and the Form store is as before
RejectedNaming(r, lacking) ==
    /\ last'.status = 400
    /\ last'.detail \in lacking /\ \A j \in lacking : last'.detail <= j
    /\ req'[r] = Idle
    /\ forms' = forms

\* C14 as stated: a create by an authenticated user, or an update by the
\* owner, whose fields list has an entry lacking a required property is
\* answered 400 naming the position, and the Form store is unchanged.
C14_InvalidFieldRejected ==
    [][\A r \in Reqs, u \in Users :
          /\ \A b \in CreateBodies :
                (Lacking(b.fields) # {} /\ CreateForm(r, u, b))
                => RejectedNaming(r, Lacking(b.fields))
          /\ \A id \in FormIds, b \in PutBodies :
                (Lacking(b.fields) # {} /\ Ownership(u, id) = 0
                 /\ PutBegin(r, u, id, b))
                => RejectedNaming(r, Lacking(b.fields))]_vars

\* C14 amended: the same, for a create whose title, base id and table id are
\* present; a create that lacks one of them is answered 400 for that, the
\* position of the field is not named, and the Form store is unchanged.
C14_InvalidFieldRejectedAmended ==
    [][\A r \in Reqs, u \in Users :
          /\ \A b \in CreateBodies :
                (Lacking(b.fields) # {} /\ CreateForm(r, u, b))
                => /\ last'.status = 400 /\ req'[r] = Idle /\ forms' = forms
                   /\ (b.title # "" /\ b.airtableBaseId # ""
                       /\ b.airtableTableId # "")
                      => RejectedNaming(r, Lacking(b.fields))
          /\ \A id \in FormIds, b \in PutBodies :
                (Lacking(b.fields) # {} /\ Ownership(u, id) = 0
                 /\ PutBegin(r, u, id, b))
                => RejectedNaming(r, Lacking(b.fields))]_vars

\* an update that carried a new title and a field without a label has been
\* answered 400 naming position 2, and the stored form has its old title
C14_Witness ==
    /\ last.kind = "put" /\ last.status = 400 /\ last.detail = 2
    /\ last.id \in DOMAIN forms
    /\ forms[last.id].title = "T1"
    /\ forms[last.id].fields = WithOrder(FieldsA)

\* C15: the order values of the stored fields of every Form are pairwise
\* distinct.  Every fields list a request of this system sends (FieldsA,
\* FieldsB, FieldsBad) supplies distinct non-negative orders, an explicit 0
\* among them, or omits them, so this is the claim for every stored Form.
C15_OrdersDistinct ==
    \A f \in DOMAIN forms :
        \A i, j \in 1 .. Len(forms[f].fields) :
            i # j => forms[f].fields[i].order # forms[f].fields[j].order

\* C16: a Form that enters the store has its own id as shareUrl (a duplicate
\* too, not the id of its source), and no step changes the shareUrl of a
\* stored Form.
C16_ShareUrlStable ==
    [][\A f \in DOMAIN forms' :
          IF f \in DOMAIN forms
          THEN forms'[f].shareSettings.shareUrl = forms[f].shareSettings.shareUrl
          ELSE forms'[f].shareSettings.shareUrl = ToString(f)]_vars

\* form 1 has been saved again after its first save (a counted view) and
\* has a duplicate; each has its own id as shareUrl
C16_Witness ==
    /\ 1 \in DOMAIN forms /\ 2 \in DOMAIN forms
    /\ forms[1].stats.totalViews > 0
    /\ forms[1].shareSettings.shareUrl = "1"
    /\ forms[2].shareSettings.shareUrl = "2"

----------------------------------------------------------------------------
(* Claims about the sync bookkeeping *)

Returned(batch) == {batch[i] : i \in 1 .. Len(batch)}

\* C5: findPendingSync returns exactly the Responses with isSynced false,
\* syncAttempts < 3 and status other than 'synced'; a Response with 3
\* attempts that is not synced is not returned.
C5_PendingExactly ==
    [][\A w \in Workers :
          (worker[w].pc = "idle" /\ worker'[w].pc = "queried")
          => /\ Returned(worker'[w].batch) =
                   {responses[x] : x \in {y \in DOMAIN responses :
                       /\ responses[y].syncStatus.isSynced = FALSE
                       /\ responses[y].syncStatus.syncAttempts < 3
                       /\ responses[y].status # "synced"}}
             /\ \A d \in Returned(worker'[w].batch) :
                   ~(d.syncStatus.syncAttempts = 3 /\ ~d.syncStatus.isSynced)]_vars

C5_Witness ==
    \E w \in Workers, x \in DOMAIN responses :
        /\ worker[w].pc = "queried"
        /\ worker[w].batch # <<>>
        /\ \A d \in Returned(worker[w].batch) : responses[d._id] = d
        /\ responses[x].syncStatus.syncAttempts = 3
        /\ ~responses[x].syncStatus.isSynced
        /\ responses[x] \notin Returned(worker[w].batch)

\* C6: syncAttempts of a stored Response never exceeds 3 when every sync
\* attempt is made on a Response returned by findPendingSync, whatever the
\* number and the interleaving of the passes.
C6_AttemptsCapped ==
    \A x \in DOMAIN responses : responses[x].syncStatus.syncAttempts <= 3

C6_Witness ==
    \E x \in DOMAIN responses, w \in Workers :
        /\ responses[x].syncStatus.syncAttempts = 3
        /\ ~responses[x].syncStatus.isSynced
        /\ worker[w].pc = "attempted"
        /\ worker[w].doc._id = x
        /\ worker[w].loaded.syncStatus.syncAttempts < 2

\* C7: the status 'synced' is terminal: a stored Response whose status is
\* 'synced' keeps it through every addError, updateSyncAttempt, markAsSynced.
C7_SyncedIsTerminal ==
    [][\A x \in DOMAIN responses :
          responses[x].status = "synced" => responses'[x].status = "synced"]_vars

C25_SyncedIffFlag ==
    \A x \in DOMAIN responses :
        (responses[x].status = "synced") <=> responses[x].syncStatus.isSynced

\* C24: a Response saved without a supplied metadata.completionPercentage
\* is stored with round(100 * answers with a non-empty value / answers), and
\* with 0 when it has no answers.
C24_CompletionComputed ==
    (rsave.pc = "saved" /\ rsave.data.completionPercentage = NotSupplied)
    => LET answers == rsave.data.responses
           filled == SelectSeq(answers, LAMBDA v : v # "" /\ v # "null")
       IN  rsave.doc.completionPercentage =
               IF Len(answers) = 0 THEN 0
               ELSE MathRound(100 * Len(filled), Len(answers))

----------------------------------------------------------------------------
(* Claims about the OAuth routes *)

\* callback slot c receives a callback request with this state parameter
\* (it is either waiting for the provider afterwards or answered at once)
CallbackArrives(c, state) ==
    /\ cb[c].pc = "idle"
    /\ \A q \in Cbs : q < c => cb[q].pc # "idle"
    /\ cbStarted' = cbStarted + 1
    /\ \/ cb'[c].pc = "exchanging" /\ cb'[c].state = state
       \/ cb' = cb /\ lastCb'.state = state

\* C10: an OAuth callback whose state parameter differs from the oauthState
\* of the caller's session is rejected at once: no token exchange is sent to
\* the provider and no User record is created or updated.
C10_StateMismatchRejected ==
    [][\A c \in Cbs, s \in StateParams :
          (CallbackArrives(c, s) /\ s # session.stored.oauthState)
          => /\ exchanges' = exchanges
             /\ cb'[c].pc = "idle"
             /\ users' = users]_vars

\* C11: when the provider accepts the code of a callback whose state matches
\* the session's oauthState, the answer carries this application's own signed
\* session token with a 7-day expiry, minted for a stored User that holds the
\* access token the provider returned.
C11_SuccessfulCallback ==
    [][\A c \in Cbs :
          (/\ cb[c].pc = "exchanging" /\ cb'[c].pc = "idle"
           /\ lastCb'.result = "success"
           /\ cb[c].state \in States
           /\ cb[c].state = session.stored.oauthState)
          => \E u \in DOMAIN users' :
                /\ users'[u].airtableAccessToken = TokenData.access_token
                /\ lastCb'.token = Some(generateToken(users'[u]._id))]_vars

\* a response body that carries a user's external-API access token
Exposes(body) ==
    \/ "airtableAccessToken" \in DOMAIN body
    \/ "user" \in DOMAIN body /\ "airtableAccessToken" \in DOMAIN body.user

\* C13: no answer the server sends carries an external-API access token:
\* not the serialized User of /me, /verify and /update-profile, and not the
\* answer of an OAuth callback.
C13_NoAccessTokenInAnswers ==
    /\ ~Exposes(lastU.body)
    /\ ~(IsSome(lastCb.token) /\ "access_token" \in DOMAIN Get(lastCb.token))

\* C20: when GET /api/auth/airtable sends the answer that carries authUrl,
\* and for as long as that answer is the last one, the session store holds
\* the state of that URL and a code verifier, and no save is pending.
C20_SessionSavedBeforeAnswer ==
    [][(lastCb'.route = "airtable" /\ (lastCb' # lastCb \/ session' # session))
       => /\ session'.pending = None
          /\ session'.stored.oauthState = lastCb'.state
          /\ session'.stored.codeVerifier \in Verifiers]_vars

----------------------------------------------------------------------------
(* Claims about the private auth routes *)

C18_AccountCascade ==
    \A u \in Users :
        u \notin DOMAIN users
        => /\ \A f \in DOMAIN forms : forms[f].userId # u
           /\ \A x \in DOMAIN responses :
                 /\ responses[x].formId \in DOMAIN forms
                 /\ forms[responses[x].formId].userId # u

\* C21: refreshes of one user are not de-duplicated, and whenever the save
\* of a refresh completes, the stored access token, refresh token and expiry
\* are those of that call (the tokens and expiry of the document it saved),
\* also when another refresh of the user has saved since the call read the
\* user: never a mix of two calls' values.
C21_LastWriterWins ==
    [][\A r \in UReqs :
          (/\ ureq[r].route = "refresh" /\ ureq[r].pc = "saving"
           /\ ureq'[r] = IdleU /\ lastU'.status = 200)
          => LET stored == users'[ureq[r].user]
                 mine == ureq[r].doc
             IN  /\ stored.airtableAccessToken = mine.airtableAccessToken
                 /\ stored.airtableRefreshToken = mine.airtableRefreshToken
                 /\ stored.airtableTokenExpiresAt = mine.airtableTokenExpiresAt]_vars

----------------------------------------------------------------------------
(* Claims about the client *)

\* C19: when a 401 with needsRefresh has made the client start a refresh and
\* that refresh is answered 200, the handling of the 401 has not taken the
\* token out of the state or out of localStorage.
C19_SilentRefreshKeepsLogin ==
    ~(lastRefresh.status = 200 /\ lastRefresh.dropped)

LogoutPending == \E i \in 1 .. Len(calls) : calls[i].fn = "logout"

LoggedOut ==
    /\ localToken = None
    /\ auth.user = None
    /\ auth.token = None
    /\ ~auth.isAuthenticated

C30_AuthStateConsistent ==
    /\ auth.isAuthenticated => (auth.user # None /\ auth.token # None)
    /\ \A type \in {"LOGOUT", "LOGIN_FAILURE"} :
          LET after == authReducer(auth, Dispatch(type, "failed"))
          IN  /\ after.user = None
              /\ after.token = None
              /\ ~after.isAuthenticated

\* logged in again after a logout took the token out of localStorage, and
\* the profile updated since
C30_Witness ==
    /\ auth.isAuthenticated
    /\ auth.user = Some(ProfileData)
    /\ auth.token # None
    /\ localToken = None

----------------------------------------------------------------------------
(* Claims about the FormBuilder wizard and the FormContext *)

\* C27: whenever the wizard is at step 3 or later, a table is selected, and
\* it is a table of the selected base.
C27_TableSelectedFromStep3 ==
    wizard.currentStep >= 3
    => /\ wizard.selectedTable # Nothing
       /\ wizard.selectedTable \in TablesOf(wizard.selectedBase)

Orders(fs) == [i \in 1 .. Len(fs) |-> fs[i].order]

Distinct(seq) ==
    \A i, j \in 1 .. Len(seq) : i # j => seq[i] # seq[j]

\* C28: after any sequence of field toggles the selected fields carry
\* pairwise distinct order values, and so do the fields of the payload that
\* handleCreateForm sends.
C28_SelectedOrdersDistinct ==
    /\ Distinct(Orders(wizard.selectedFields))
    /\ lastPayload # None => Distinct(Orders(Get(lastPayload)))

\* C29: after a successful publishForm(id, v) the entry of the forms list
\* with _id = id has isPublished = v and keeps its _id, title and stats.
C29_PublishUpdatesList ==
    (lastPublish # None /\ Get(lastPublish).ok)
    => \E i \in 1 .. Len(ctx.forms) :
          /\ Prop(ctx.forms[i], "_id") = Some(Get(lastPublish).id)
          /\ Prop(ctx.forms[i], "isPublished") = Some(Get(lastPublish).isPublished)
          /\ Prop(ctx.forms[i], "title") = Some(<<"T">>)
          /\ Prop(ctx.forms[i], "stats") = Some(DefaultStats)

----------------------------------------------------------------------------
(* Claims about the Airtable routes *)

\* C22: an Airtable route whose upstream call failed answers by the status
\* of the failure: 401 with needsRefresh for 401, 404 for 404, 422 for 422
\* and 500 for anything else.
C22_UpstreamErrorMapping ==
    (lastA.upstream # NoCall /\ lastA.upstream # 200)
    => /\ lastA.status = CASE lastA.upstream = 401 -> 401
                           [] lastA.upstream = 404 -> 404
                           [] lastA.upstream = 422 -> 422
                           [] OTHER -> 500
       /\ lastA.needsRefresh = (lastA.upstream = 401)

====
